---- MODULE Spec2Model ----
(***************************************************************************)
(* Offline verification of Verifiable Credentials (Inji Verify):           *)
(*   - BLEVerificationService   app/src/lib/ble-verification.ts            *)
(*   - TrustManagementService   app/src/lib/trust-management.ts            *)
(*   - the BLE wire encodings   encodeVCForBLE / decodeVCFromBLE /         *)
(*                              encodeAsCWT                                *)
(* JavaScript values are tagged records, so that null, undefined, strings, *)
(* numbers, arrays and objects keep their own truthiness and their own     *)
(* behaviour under property access and JSON serialisation.                 *)
(***************************************************************************)
EXTENDS Integers, Sequences, FiniteSets, TLC

VARIABLES
  config,           \* BLEVerificationService.config
  now,              \* the device clock (Date.now())
  packet,           \* argument of the last verifyCredentialOffline call
  rnd,              \* the Math.random() draws of the last call
  path,             \* how the last call ended: none / normal / aborted / fault
  result,           \* the BLEVerificationResult the last call resolved to
  trustBundle,      \* TrustManagementService.trustBundle
  loaded,           \* history: a loadTrustBundle call has resolved
  revocationCache,  \* TrustManagementService.revocationCache
  trustCall,        \* the last trust store call and what it returned
  wire,             \* the last packet put on the wire and what came back
  attempt,          \* a verification attempt in progress and what it has read
  ble,              \* BLEVerificationService: isScanning, isAdvertising, timers
  faceService,      \* OfflineFaceMatchService: modelLoaded, initialize calls
  qr,                \* the last verifyVCOffline call and how it ended
  sync               \* the log store, the syncLogs calls in flight, background sync

vars == <<config, now, packet, rnd, path, result, trustBundle, loaded,
          revocationCache, trustCall, wire, attempt, ble, faceService, qr, sync>>

-----------------------------------------------------------------------------
(* Bounds *)

\* the clock runs from 1 to MaxTime
MaxTime == 3
\* an issuer of a trust bundle has at most MaxKeys public keys
MaxKeys == 2
\* a trust bundle lists at most MaxLists revocation lists
MaxLists == 2
\* the instant that the expiry dates of credentials and keys denote
ExpiryInstant == 2

-----------------------------------------------------------------------------
(* JavaScript values *)

Undefined == [tag |-> "undefined"]
Null == [tag |-> "null"]
Str(s) == [tag |-> "string", s |-> s]
Num(n) == [tag |-> "number", n |-> n]
Arr(items) == [tag |-> "array", items |-> items]
\* NaN: the number that no comparison holds of
NaN == [tag |-> "NaN"]

IsNullish(v) == v.tag \in {"undefined", "null"}

\* ToBoolean: undefined, null, "", 0 and NaN are falsy, every object and array
\* (the empty ones too) is truthy
Truthy(v) ==
  CASE v.tag \in {"undefined", "null"} -> FALSE
    [] v.tag = "string" -> v.s # ""
    [] v.tag = "number" -> v.n # 0
    [] v.tag = "NaN" -> FALSE
    [] OTHER -> TRUE

\* a > b on numbers: false as soon as one side is NaN
NumGT(a, b) == a.tag = "number" /\ b.tag = "number" /\ a.n > b.n
NumLT(a, b) == a.tag = "number" /\ b.tag = "number" /\ a.n < b.n

\* ISO date strings of the model and the instants they denote
DateString(t) == Str("date:" \o ToString(t))
\* the same instant written with its zone
DateStringUTC(t) == Str("date:" \o ToString(t) \o "Z")
InvalidDateString == Str("not-a-date")
Times == 1..MaxTime

\* new Date(v).getTime(): the instant of a date string, NaN for any other string
DateGetTime(v) ==
  IF \E t \in Times : v \in {DateString(t), DateStringUTC(t)}
  THEN Num(CHOOSE t \in Times : v \in {DateString(t), DateStringUTC(t)})
  ELSE NaN

-----------------------------------------------------------------------------
(* BLEVerificationService: the verification pipeline *)

IssuerGov == "did:mosip:issuer:gov"
IssuerHealth == "did:mosip:issuer:health"
IssuerEducation == "did:mosip:issuer:education"
IssuerUnknown == "did:unknown:issuer"
\* an issuer id that is also the name of a property every object inherits
IssuerConstructor == "constructor"

validateCredentialFormat(credential) ==
  /\ Truthy(credential)
  /\ Truthy(credential.atContext)
  /\ Truthy(credential.type)
  /\ Truthy(credential.issuer)
  /\ Truthy(credential.credentialSubject)

\* reads credential.expirationDate: a TypeError when credential is null
checkExpirationThrows(credential) == IsNullish(credential)

\* an expiry that still passes at the very instant of the expirationDate
checkExpiration_inclusive(credential, clock) ==
  IF ~Truthy(credential.expirationDate) THEN TRUE
  ELSE ~NumLT(DateGetTime(credential.expirationDate), Num(clock))

checkExpiration(credential, clock) ==
  IF ~Truthy(credential.expirationDate) THEN TRUE
  ELSE NumGT(DateGetTime(credential.expirationDate), Num(clock))

getTrustedIssuers == {IssuerGov, IssuerHealth, IssuerEducation}

verifyIssuerTrust(issuerId) ==
  issuerId.tag = "string" /\ issuerId.s \in getTrustedIssuers

\* the object literal indexed by issuerId || '': its own three keys, and the
\* properties it inherits from Object.prototype
getIssuerPublicKeys(issuerId) ==
  LET key == IF Truthy(issuerId) THEN issuerId.s ELSE ""
  IN CASE key = IssuerGov -> [tag |-> "object", type |-> "Ed25519", publicKey |-> "mock-key-1"]
       [] key = IssuerHealth -> [tag |-> "object", type |-> "RSA", publicKey |-> "mock-key-2"]
       [] key = IssuerEducation -> [tag |-> "object", type |-> "Ed25519", publicKey |-> "mock-key-3"]
       [] key = IssuerConstructor -> [tag |-> "function"]
       [] OTHER -> Undefined

\* credential.issuer?.id
OptionalIssuerId(credential) ==
  IF IsNullish(credential.issuer) THEN Undefined ELSE credential.issuer.id

\* random is the outcome of Math.random() > 0.1
verifySignature(credential, proof, random) ==
  LET issuerKeys == getIssuerPublicKeys(OptionalIssuerId(credential))
  IN IF ~Truthy(issuerKeys) THEN FALSE ELSE random

\* how a call ends: with a value, or with an error thrown
Return(v) == [tag |-> "return", value |-> v]
Throw(message) == [tag |-> "throw", message |-> message]

\* a face match provider that throws when the face does not match
performFaceMatch_faults(credential, random) ==
  IF random.match
  THEN Return([tag |-> "object", match |-> TRUE, confidence |-> random.confidence])
  ELSE Throw("Face match failed")

\* random.match is the outcome of Math.random() > 0.2, random.confidence the
\* confidence drawn, in hundredths; the stub always returns
performFaceMatch(credential, random) ==
  Return([tag |-> "object", match |-> random.match, confidence |-> random.confidence])

\* a reason put before the reasons already listed
Push_prepends(errors, flag, reason) == IF flag THEN errors ELSE <<reason>> \o errors

\* if (!flag) errors.push(reason)
Push(errors, flag, reason) == IF flag THEN errors ELSE Append(errors, reason)

\* the conjunction without the format check
Success_skipsFormat(signatureValid, issuerTrusted, notExpired, formatValid) ==
  signatureValid /\ issuerTrusted /\ notExpired

Success(signatureValid, issuerTrusted, notExpired, formatValid) ==
  signatureValid /\ issuerTrusted /\ notExpired /\ formatValid

\* the catch block: every flag false, the error appended to the reasons so far
CaughtError(pkt, errors, message, clock) ==
  [path |-> "aborted",
   result |-> [success |-> FALSE,
               credential |-> pkt.credential,
               verification |-> [signatureValid |-> FALSE, issuerTrusted |-> FALSE,
                                 notExpired |-> FALSE, formatValid |-> FALSE,
                                 faceMatch |-> Undefined],
               errors |-> Append(errors, "Verification error: " \o message),
               timestamp |-> clock]]

\* the promise is rejected: no verdict
Rejected == [path |-> "fault", result |-> Undefined]

verifyCredentialOffline(pkt, cfg, clock, random) ==
  IF IsNullish(pkt)
  THEN \* packet.credential throws in the try block, and again in the catch block
       Rejected
  ELSE
    LET credential == pkt.credential
        formatValid == validateCredentialFormat(credential)
        errors1 == Push(<<>>, formatValid, "Invalid credential format")
    IN IF checkExpirationThrows(credential)
       THEN CaughtError(pkt, errors1, "Cannot read properties of null (reading 'expirationDate')", clock)
       ELSE
         LET notExpired == checkExpiration(credential, clock)
             errors2 == Push(errors1, notExpired, "Credential has expired")
         IN IF IsNullish(pkt.metadata)
            THEN CaughtError(pkt, errors2, "Cannot read properties of null (reading 'issuer')", clock)
            ELSE
              LET issuerTrusted == verifyIssuerTrust(pkt.metadata.issuer)
                  errors3 == Push(errors2, issuerTrusted, "Untrusted issuer")
                  signatureValid == verifySignature(credential, pkt.proof, random.signature)
                  errors4 == Push(errors3, signatureValid, "Invalid digital signature")
                  \* the face match is awaited inside the try block
                  faceStep == IF cfg.deviceRole = "verifier"
                              THEN performFaceMatch(credential, random.face)
                              ELSE Return(Undefined)
                  faceMatch == faceStep.value
                  success == Success(signatureValid, issuerTrusted, notExpired, formatValid)
              IN IF faceStep.tag = "throw"
                 THEN CaughtError(pkt, errors4, faceStep.message, clock)
                 ELSE
                 [path |-> "normal",
                  result |-> [success |-> success,
                              credential |-> credential,
                              verification |-> [signatureValid |-> signatureValid,
                                                issuerTrusted |-> issuerTrusted,
                                                notExpired |-> notExpired,
                                                formatValid |-> formatValid,
                                                faceMatch |-> faceMatch],
                              errors |-> errors4,
                              timestamp |-> clock]]

-----------------------------------------------------------------------------
(* TrustManagementService: the trust store *)

\* Array.prototype.find on the issuers of a bundle: the first issuer with that id
FindIssuer(bundle, issuerId) ==
  LET issuers == bundle.issuers.items
      hits == {i \in DOMAIN issuers : issuers[i].id = issuerId}
  IN IF hits = {} THEN Undefined
     ELSE issuers[CHOOSE i \in hits : \A j \in hits : i <= j]

\* reading this.trustBundle.issuers.find: the guard on a missing bundle, and the
\* TypeError of a bundle that has no issuers array
BundleReadThrows(bundle) == ~Truthy(bundle) \/ IsNullish(bundle.issuers)
BundleReadError(bundle) ==
  IF ~Truthy(bundle) THEN Throw("Trust bundle not loaded")
  ELSE Throw("Cannot read properties of undefined (reading 'find')")

\* Array.prototype.find on a key list: the first key among the positions whose
\* key passes the callback
FindKey(publicKeys, hits) ==
  IF hits = {} THEN Undefined
  ELSE publicKeys[CHOOSE i \in hits : \A j \in hits : i <= j]

\* every key has an expiresAt and it lies before the clock
isIssuerExpired(issuer, clock) ==
  \A i \in DOMAIN issuer.publicKeys :
    /\ Truthy(issuer.publicKeys[i].expiresAt)
    /\ NumLT(issuer.publicKeys[i].expiresAt, Num(clock))

TMS_verifyIssuerTrust(bundle, issuerId, clock) ==
  IF BundleReadThrows(bundle) THEN BundleReadError(bundle)
  ELSE LET issuer == FindIssuer(bundle, issuerId)
       IN Return(Truthy(issuer) /\ ~isIssuerExpired(issuer, clock))

\* x || null
OrNull(v) == IF Truthy(v) THEN v ELSE Null

getIssuerPublicKey(bundle, issuerId, keyId, clock) ==
  IF BundleReadThrows(bundle) THEN BundleReadError(bundle)
  ELSE LET issuer == FindIssuer(bundle, issuerId)
           ById(k) == k.id = keyId
           Usable(k) == ~k.revoked /\ (~Truthy(k.expiresAt) \/ NumGT(k.expiresAt, Num(clock)))
           keys == issuer.publicKeys
       IN IF ~Truthy(issuer) THEN Return(Null)
          ELSE IF Truthy(keyId)
            THEN Return(OrNull(FindKey(keys, {i \in DOMAIN keys : ById(keys[i])})))
          ELSE Return(OrNull(FindKey(keys, {i \in DOMAIN keys : Usable(keys[i])})))

\* Map.get
MapGet(map, key) == IF key \in DOMAIN map THEN map[key] ELSE Undefined
\* Map.set
MapSet(map, key, value) ==
  [k \in DOMAIN map \cup {key} |-> IF k = key THEN value ELSE map[k]]

Includes(seq, x) == \E i \in DOMAIN seq : seq[i] = x

\* fail-closed: no cached list counts as revoked
verifyCredentialRevocation_failClosed(cache, issuerId, credentialId) ==
  LET revocationList == MapGet(cache, issuerId)
  IN IF ~Truthy(revocationList) THEN FALSE
     ELSE ~Includes(revocationList.revokedCredentials, credentialId)

\* true when the credential is NOT revoked
verifyCredentialRevocation(cache, issuerId, credentialId) ==
  LET revocationList == MapGet(cache, issuerId)
  IN IF ~Truthy(revocationList) THEN TRUE
     ELSE ~Includes(revocationList.revokedCredentials, credentialId)

SupportedTypes ==
  <<Str("Ed25519Signature2020"), Str("RsaSignature2018"), Str("EcdsaSecp256k1Signature2019")>>

\* random is the outcome of Math.random() > 0.1
simulateSignatureVerification(credential, proof, publicKey, random) ==
  Includes(SupportedTypes, proof.type) /\ random

\* every throw inside the try block (no bundle, a null proof, no key) is caught
\* and turned into false
TMS_verifySignature(bundle, credential, proof, issuerId, clock, random) ==
  IF IsNullish(proof) THEN FALSE
  ELSE LET publicKey == getIssuerPublicKey(bundle, issuerId, proof.verificationMethod, clock)
       IN IF publicKey.tag = "throw" THEN FALSE
          ELSE IF ~Truthy(publicKey.value) THEN FALSE
          ELSE simulateSignatureVerification(credential, proof, publicKey.value, random)

\* what loadTrustBundle leaves in the store. fetched is the outcome of fetch and
\* response.json(): a failure before the assignment leaves the store untouched;
\* the assignment installs whatever JSON came back; the caching loop then runs
\* over its revocationLists, and throws when there are none to iterate.
RECURSIVE CacheLists(_, _)
CacheLists(cache, lists) ==
  IF lists = <<>> THEN cache
  ELSE CacheLists(MapSet(cache, Head(lists).issuerId, Head(lists)), Tail(lists))

loadTrustBundle(store, fetched) ==
  IF fetched.tag # "json"
  THEN [store EXCEPT !.outcome = Throw("Trust bundle loading failed: " \o fetched.message)]
  ELSE IF IsNullish(fetched.body)
  THEN [trustBundle |-> fetched.body, revocationCache |-> store.revocationCache,
        outcome |-> Throw("Trust bundle loading failed: Cannot read properties of null (reading 'revocationLists')")]
  ELSE IF IsNullish(fetched.body.revocationLists)
  THEN [trustBundle |-> fetched.body, revocationCache |-> store.revocationCache,
        outcome |-> Throw("Trust bundle loading failed: revocationLists is not iterable")]
  ELSE LET cached == CacheLists(store.revocationCache, fetched.body.revocationLists.items)
       IN IF IsNullish(fetched.body.issuers)
          THEN \* the log line after the loop reads issuers.length
               [trustBundle |-> fetched.body, revocationCache |-> cached,
                outcome |-> Throw("Trust bundle loading failed: Cannot read properties of undefined (reading 'length')")]
          ELSE [trustBundle |-> fetched.body, revocationCache |-> cached,
                outcome |-> Return(Undefined)]

\* a hot-swap that throws the other issuers' lists away
updateRevocationList_dropsOthers(cache, issuerId, revocationList) ==
  MapSet(<<>>, issuerId, revocationList)

updateRevocationList(cache, issuerId, revocationList) ==
  MapSet(cache, issuerId, revocationList)

-----------------------------------------------------------------------------
(* Inputs *)

Roles == {"wallet", "verifier"}
NoCall == [tag |-> "none"]

W3CContext == Arr(<<Str("https://www.w3.org/2018/credentials/v1")>>)
CredentialId == Str("urn:credential:1")
OtherCredentialId == Str("urn:credential:2")
GovKeyId(i) == Str(IssuerGov \o "#key-" \o ToString(i))
HealthKeyId == Str(IssuerHealth \o "#key-1")
\* a verification method that names no key of any bundle
NoSuchKeyId == Str(IssuerGov \o "#key-0")

ExpirationDates == {Undefined, Str(""), InvalidDateString, DateString(ExpiryInstant)}

VerifyIssuers ==
  {Undefined, [tag |-> "object", id |-> Undefined]}
  \cup {[tag |-> "object", id |-> Str(i)] :
          i \in {IssuerGov, IssuerHealth, IssuerUnknown, IssuerConstructor}}

VerifyCredentials ==
  {Null} \cup
  [tag : {"object"},
   id : {CredentialId},
   atContext : {Undefined, W3CContext},
   type : {Undefined, Arr(<<Str("VerifiableCredential")>>)},
   issuer : VerifyIssuers,
   issuanceDate : {DateString(1)},
   expirationDate : ExpirationDates,
   credentialSubject : {Undefined, [tag |-> "object", id |-> Str("did:mosip:holder:123")]}]

VerifyProofs ==
  {Null} \cup
  [tag : {"object"},
   type : {Str("Ed25519Signature2020")},
   verificationMethod : {GovKeyId(1), NoSuchKeyId},
   proofValue : {Str("mock-signature")}]

Metadata(issuer) ==
  [tag |-> "object", issuer |-> issuer, issuedAt |-> DateString(1),
   expiresAt |-> Undefined, proofType |-> Str("Ed25519Signature2020"),
   context |-> W3CContext]

VerifyMetadata == {Null} \cup {Metadata(Str(i)) : i \in {IssuerGov, IssuerUnknown}}

VerifyPackets ==
  {Null} \cup
  [tag : {"object"},
   credential : VerifyCredentials,
   proof : VerifyProofs,
   metadata : VerifyMetadata,
   nonce : {Str("test-nonce")},
   timestamp : {Num(1)}]

\* confidence = Math.random() * 0.3 + 0.7, in hundredths
Confidences == {70, 99}
NoFaceDraw == [match |-> FALSE, confidence |-> 70]
FaceDraws == [match : BOOLEAN, confidence : Confidences]
\* a wallet draws nothing for the face match
Draws(cfg) ==
  [signature : BOOLEAN,
   face : IF cfg.deviceRole = "verifier" THEN FaceDraws ELSE {NoFaceDraw}]

-----------------------------------------------------------------------------
(* Actions of the verification pipeline *)

\* no call is being observed
Idle == packet = NoCall /\ trustCall = NoCall /\ wire = NoCall

\* the clock advances between calls
Tick ==
  /\ Idle
  /\ now < MaxTime
  /\ now' = now + 1
  /\ UNCHANGED <<config, packet, rnd, path, result, trustBundle, loaded, revocationCache,
                 trustCall, wire,
                 attempt, ble, faceService, qr, sync>>

\* the caller is done with the result of its last call
Forget ==
  /\ ~Idle
  /\ packet' = NoCall
  /\ rnd' = NoCall
  /\ path' = "none"
  /\ result' = NoCall
  /\ trustCall' = NoCall
  /\ wire' = NoCall
  /\ UNCHANGED <<config, now, trustBundle, loaded, revocationCache,
                 attempt, ble, faceService, qr, sync>>

Call_verifyCredentialOffline ==
  /\ Idle
  /\ \E pkt \in VerifyPackets : \E random \in Draws(config) :
       LET out == verifyCredentialOffline(pkt, config, now, random)
       IN /\ packet' = pkt
          /\ rnd' = random
          /\ path' = out.path
          /\ result' = out.result
  /\ UNCHANGED <<config, now, trustBundle, loaded, revocationCache, trustCall, wire,
                 attempt, ble, faceService, qr, sync>>

\* the timeout the caller puts in the config
ConfigTimeoutMs == 30000

\* the fields of a new BLEVerificationService; timers are the setTimeout
\* callbacks that are still pending
NewBLEService == [isScanning |-> FALSE, isAdvertising |-> FALSE, timers |-> <<>>]

\* the fields of a new OfflineFaceMatchService; initializing counts the
\* initialize calls that are waiting for loadModel
\* confidences, similarities and thresholds of the face match service are in
\* ten-thousandths: 0.8 is 8000
DEFAULT_FACE_MATCH_CONFIG == [confidenceThreshold |-> 8000, maxFaces |-> 5]
NewFaceService(cfg) == [config |-> cfg, modelLoaded |-> FALSE]

\* one call of syncLogs: where it is suspended, the logs it read, the response
\* it holds, how it ended, and whether the device was online when it started
IdleRun == [pc |-> "idle", batch |-> <<>>, res |-> NoCall, data |-> NoCall,
            outcome |-> NoCall, online |-> TRUE]
\* the callers of syncLogs: the Sync Now button and the background runSync
Runners == {"onSync", "runSync"}
\* the empty log store, no timer, navigator.onLine
NewSync == [logs |-> <<>>, accepted |-> <<>>, run |-> [r \in Runners |-> IdleRun],
            isOnline |-> TRUE, syncTimer |-> FALSE, background |-> "idle"]

Init ==
  /\ config \in [deviceRole : Roles, timeoutMs : {ConfigTimeoutMs}]
  /\ now = 1
  /\ packet = NoCall
  /\ rnd = NoCall
  /\ path = "none"
  /\ result = NoCall
  /\ trustBundle = Null
  /\ loaded = FALSE
  /\ revocationCache = <<>>
  /\ trustCall = NoCall
  /\ wire = NoCall
  /\ attempt = NoCall
  /\ ble = [service |-> NewBLEService, roleChanged |-> FALSE, call |-> NoCall,
           stale |-> <<>>]
  /\ faceService = [service |-> NewFaceService(DEFAULT_FACE_MATCH_CONFIG),
                    initializing |-> 0, initialized |-> FALSE, call |-> NoCall]
  /\ qr = NoCall
  /\ sync = NewSync

VerifyNext ==
  \/ Call_verifyCredentialOffline
  \/ Tick
  \/ Forget

SpecVerify == Init /\ [][VerifyNext]_vars

-----------------------------------------------------------------------------
(* Trust bundles *)

PublicKey(id, type, algorithm, expiresAt, revoked) ==
  [tag |-> "object", id |-> id, type |-> type, publicKey |-> Str("mock-public-key"),
   algorithm |-> algorithm, expiresAt |-> expiresAt, revoked |-> revoked]

TrustedIssuer(id, name, publicKeys, verificationMethod, proofTypes) ==
  [tag |-> "object", id |-> Str(id), name |-> Str(name), publicKeys |-> publicKeys,
   metadata |-> [tag |-> "object", verificationMethod |-> verificationMethod,
                 assertionMethod |-> verificationMethod,
                 supportedProofTypes |-> proofTypes],
   lastUpdated |-> Num(1)]

RevocationList(issuerId, revokedCredentials) ==
  [tag |-> "object", issuerId |-> Str(issuerId), revokedCredentials |-> revokedCredentials,
   lastUpdated |-> Num(1), nextUpdate |-> Num(MaxTime + 7),
   signature |-> Str("mock-revocation-signature")]

DefaultSchemas ==
  Arr(<<[tag |-> "object", type |-> Str("VerifiableCredential")],
        [tag |-> "object", type |-> Str("MOSIPCredential")]>>)

TrustBundle(issuers, revocationLists) ==
  [tag |-> "object", issuers |-> issuers, revocationLists |-> revocationLists,
   schemas |-> DefaultSchemas, version |-> Str("1.0.0"),
   expiresAt |-> Num(MaxTime + 30), signature |-> Str("mock-trust-bundle-signature")]

DefaultGovIssuer ==
  TrustedIssuer(IssuerGov, "MOSIP Government Issuer",
                <<PublicKey(GovKeyId(1), "Ed25519", "EdDSA", Num(MaxTime + 365), FALSE)>>,
                GovKeyId(1), Arr(<<Str("Ed25519Signature2020"), Str("RsaSignature2018")>>))

DefaultHealthIssuer ==
  TrustedIssuer(IssuerHealth, "MOSIP Health Issuer",
                <<PublicKey(HealthKeyId, "RSA", "RS256", Num(MaxTime + 180), FALSE)>>,
                HealthKeyId, Arr(<<Str("RsaSignature2018"), Str("Ed25519Signature2020")>>))

DEFAULT_TRUST_BUNDLE ==
  TrustBundle(Arr(<<DefaultGovIssuer, DefaultHealthIssuer>>),
              Arr(<<RevocationList(IssuerGov, <<>>)>>))

\* the key lists of the government issuer: up to MaxKeys keys, each with or
\* without an expiry instant, revoked or not
KeyConfigs == [expiresAt : {Undefined, Num(ExpiryInstant)}, revoked : BOOLEAN]
KeyLists ==
  UNION {{[i \in 1..n |-> PublicKey(GovKeyId(i), "Ed25519", "EdDSA",
                                    f[i].expiresAt, f[i].revoked)] :
            f \in [1..n -> KeyConfigs]} : n \in 0..MaxKeys}

GovIssuer(keys) ==
  TrustedIssuer(IssuerGov, "MOSIP Government Issuer", keys, GovKeyId(1),
                Arr(<<Str("Ed25519Signature2020"), Str("RsaSignature2018")>>))

KeyBundles ==
  {DEFAULT_TRUST_BUNDLE, TrustBundle(Arr(<<>>), Arr(<<>>))}
  \cup {TrustBundle(Arr(<<GovIssuer(keys)>>), Arr(<<>>)) : keys \in KeyLists}
  \cup {TrustBundle(Arr(<<DefaultHealthIssuer, GovIssuer(keys)>>), Arr(<<>>)) : keys \in KeyLists}

RevocationLists ==
  {RevocationList(i, r) : i \in {IssuerGov, IssuerHealth},
                          r \in {<<>>, <<CredentialId>>}}

RevocationBundles ==
  {TrustBundle(Arr(<<DefaultGovIssuer, DefaultHealthIssuer>>), Arr(lists)) :
     lists \in UNION {[1..n -> RevocationLists] : n \in 0..MaxLists}}

\* what fetch and response.json() can come back with
Fetched(body) == [tag |-> "json", body |-> body]
FailedFetches ==
  {[tag |-> "notOk", message |-> "Failed to load trust bundle: Not Found"],
   [tag |-> "rejected", message |-> "Network error"],
   [tag |-> "badJson", message |-> "Unexpected token < in JSON"]}
MalformedBundles ==
  {Null,
   [DEFAULT_TRUST_BUNDLE EXCEPT !.revocationLists = Undefined],
   [DEFAULT_TRUST_BUNDLE EXCEPT !.issuers = Undefined]}

KeyFetches ==
  FailedFetches \cup {Fetched(b) : b \in KeyBundles \cup MalformedBundles}
RevocationFetches ==
  FailedFetches \cup {Fetched(b) : b \in RevocationBundles}

QueryIssuers == {Str(IssuerGov), Str(IssuerHealth), Str(IssuerUnknown)}
QueryKeyIds == {Undefined, Str(""), NoSuchKeyId} \cup {GovKeyId(i) : i \in 1..MaxKeys}
QueryCredentialIds == {CredentialId, OtherCredentialId}
TrustProofs ==
  {Null} \cup
  [tag : {"object"},
   type : {Str("Ed25519Signature2020"), Str("RsaSignature2018"),
           Str("EcdsaSecp256k1Signature2019"), Str("BbsBlsSignature2020")},
   verificationMethod : {Undefined, Str(""), GovKeyId(1), NoSuchKeyId},
   proofValue : {Str("mock-signature")}]

-----------------------------------------------------------------------------
(* Actions of the trust store *)

LoadTrustBundle(Fetches) ==
  /\ Idle
  /\ \E fetched \in Fetches :
       LET out == loadTrustBundle([trustBundle |-> trustBundle,
                                   revocationCache |-> revocationCache,
                                   outcome |-> Undefined], fetched)
       IN /\ trustBundle' = out.trustBundle
          /\ revocationCache' = out.revocationCache
          /\ loaded' = (loaded \/ out.outcome.tag = "return")
          /\ trustCall' = [op |-> "loadTrustBundle", fetched |-> fetched,
                           before |-> [trustBundle |-> trustBundle,
                                       revocationCache |-> revocationCache],
                           outcome |-> out.outcome]
  /\ UNCHANGED <<config, now, packet, rnd, path, result, wire,
                 attempt, ble, faceService, qr, sync>>

Call_updateRevocationList ==
  /\ Idle
  /\ \E issuerId \in {Str(IssuerGov), Str(IssuerHealth)} : \E list \in RevocationLists :
       /\ revocationCache' = updateRevocationList(revocationCache, issuerId, list)
       /\ trustCall' = [op |-> "updateRevocationList", issuerId |-> issuerId,
                        list |-> list,
                        before |-> [trustBundle |-> trustBundle,
                                    revocationCache |-> revocationCache],
                        outcome |-> Return(Undefined)]
  /\ UNCHANGED <<config, now, packet, rnd, path, result, trustBundle, loaded, wire,
                 attempt, ble, faceService, qr, sync>>

Call_verifyIssuerTrust ==
  /\ Idle
  /\ \E issuerId \in QueryIssuers :
       trustCall' = [op |-> "verifyIssuerTrust", issuerId |-> issuerId,
                     outcome |-> TMS_verifyIssuerTrust(trustBundle, issuerId, now)]
  /\ UNCHANGED <<config, now, packet, rnd, path, result, trustBundle, loaded, revocationCache, wire,
                 attempt, ble, faceService, qr, sync>>

Call_getIssuerPublicKey ==
  /\ Idle
  /\ \E issuerId \in QueryIssuers : \E keyId \in QueryKeyIds :
       trustCall' = [op |-> "getIssuerPublicKey", issuerId |-> issuerId, keyId |-> keyId,
                     outcome |-> getIssuerPublicKey(trustBundle, issuerId, keyId, now)]
  /\ UNCHANGED <<config, now, packet, rnd, path, result, trustBundle, loaded, revocationCache, wire,
                 attempt, ble, faceService, qr, sync>>

Call_verifyCredentialRevocation ==
  /\ Idle
  /\ \E issuerId \in QueryIssuers : \E credentialId \in QueryCredentialIds :
       trustCall' = [op |-> "verifyCredentialRevocation", issuerId |-> issuerId,
                     credentialId |-> credentialId,
                     outcome |-> Return(verifyCredentialRevocation(revocationCache, issuerId,
                                                                   credentialId))]
  /\ UNCHANGED <<config, now, packet, rnd, path, result, trustBundle, loaded, revocationCache, wire,
                 attempt, ble, faceService, qr, sync>>

Call_verifySignature ==
  /\ Idle
  /\ \E issuerId \in QueryIssuers : \E proof \in TrustProofs : \E random \in BOOLEAN :
       trustCall' = [op |-> "verifySignature", issuerId |-> issuerId, proof |-> proof,
                     outcome |-> Return(TMS_verifySignature(trustBundle, Null, proof,
                                                            issuerId, now, random))]
  /\ UNCHANGED <<config, now, packet, rnd, path, result, trustBundle, loaded, revocationCache, wire,
                 attempt, ble, faceService, qr, sync>>

TrustNext ==
  \/ LoadTrustBundle(KeyFetches)
  \/ Call_verifyIssuerTrust
  \/ Call_getIssuerPublicKey
  \/ Call_verifySignature
  \/ Tick
  \/ Forget

SpecTrust == Init /\ [][TrustNext]_vars

RevocationNext ==
  \/ LoadTrustBundle(RevocationFetches)
  \/ Call_updateRevocationList
  \/ Call_verifyCredentialRevocation
  \/ Forget

SpecRevocation == Init /\ [][RevocationNext]_vars

-----------------------------------------------------------------------------
(* Properties of the verification pipeline (SpecVerify) *)

Returned == path \in {"normal", "aborted"}
Flags == result.verification

FormatReason == "Invalid credential format"
ExpiryReason == "Credential has expired"
TrustReason == "Untrusted issuer"
SignatureReason == "Invalid digital signature"

\* C1: every verdict, on the normal and on the aborted path, has
\* success = formatValid /\ notExpired /\ issuerTrusted /\ signatureValid, and
\* the same packet with the same signature draw has the same success under
\* either device role and every face match draw.
C1_MandatoryAnd ==
  Returned =>
    /\ result.success = (Flags.formatValid /\ Flags.notExpired
                         /\ Flags.issuerTrusted /\ Flags.signatureValid)
    /\ \A cfg \in [deviceRole : Roles] : \A face \in FaceDraws :
         verifyCredentialOffline(packet, cfg, result.timestamp,
                                 [signature |-> rnd.signature, face |-> face]).result.success
           = result.success

\* a verdict that succeeds although the face did not match
C1_Witness ==
  /\ path = "normal"
  /\ result.success
  /\ Flags.faceMatch # Undefined
  /\ ~Flags.faceMatch.match

\* C7: no fault escapes verifyCredentialOffline, whatever the packet (a null
\* packet included); a stage that cannot complete gives a verdict with the four
\* flags false, success false and a non-empty errors list.
C7_NoFaultEscapes ==
  /\ path # "fault"
  /\ path = "aborted" =>
       /\ ~result.success
       /\ ~Flags.formatValid /\ ~Flags.notExpired
       /\ ~Flags.issuerTrusted /\ ~Flags.signatureValid
       /\ result.errors # <<>>

StageReasons == <<FormatReason, ExpiryReason, TrustReason, SignatureReason>>

\* the reasons of the flags that are false, in stage order
ReasonsOf(flags) ==
  LET Failed(reason) ==
        \/ reason = FormatReason /\ ~flags.formatValid
        \/ reason = ExpiryReason /\ ~flags.notExpired
        \/ reason = TrustReason /\ ~flags.issuerTrusted
        \/ reason = SignatureReason /\ ~flags.signatureValid
  IN SelectSeq(StageReasons, Failed)

IsSubsequence(short, long) ==
  \E pick \in SUBSET (DOMAIN long) :
    /\ Cardinality(pick) = Len(short)
    /\ \A i \in DOMAIN short :
         \E j \in pick : /\ Cardinality({k \in pick : k <= j}) = i
                         /\ long[j] = short[i]

HasRequiredFields(credential) ==
  /\ ~IsNullish(credential)
  /\ Truthy(credential.atContext)
  /\ Truthy(credential.type)
  /\ Truthy(credential.issuer)
  /\ Truthy(credential.credentialSubject)

\* C9: formatValid holds exactly when the credential has @context, type, issuer
\* and credentialSubject and metadata.issuer equals the credential's issuer id;
\* an issuer mismatch gives formatValid = false and success = false.
C9_FormatChecksIssuer ==
  path = "normal" =>
    /\ Flags.formatValid =
         (/\ HasRequiredFields(packet.credential)
          /\ packet.metadata.issuer = OptionalIssuerId(packet.credential))
    /\ packet.metadata.issuer # OptionalIssuerId(packet.credential) => ~result.success

\* the packet with the credential's expirationDate taken away
WithoutExpiry(pkt) == [pkt EXCEPT !.credential.expirationDate = Undefined]

\* the expirationDate names an instant strictly after the clock
StrictlyLater(expirationDate, clock) ==
  \E t \in Times : expirationDate = DateString(t) /\ t > clock

-----------------------------------------------------------------------------
(* Properties of the trust store (SpecTrust, SpecRevocation) *)

Observed(op) == trustCall # NoCall /\ trustCall.op = op

BundleLoaded == Truthy(trustBundle) /\ ~IsNullish(trustBundle.issuers)

IssuersOf(bundle) == {bundle.issuers.items[i] : i \in DOMAIN bundle.issuers.items}
KeysOf(issuer) == {issuer.publicKeys[i] : i \in DOMAIN issuer.publicKeys}

\* a key resolves in the bundle for the issuer and the proof's verification
\* method: the issuer's key of that id or, without a verification method, one of
\* its keys that is neither revoked nor expired
KeyResolves(bundle, issuerId, proof, clock) ==
  /\ Truthy(bundle) /\ ~IsNullish(bundle.issuers)
  /\ ~IsNullish(proof)
  /\ \E issuer \in IssuersOf(bundle) :
       /\ issuer.id = issuerId
       /\ \E k \in KeysOf(issuer) :
            IF Truthy(proof.verificationMethod)
            THEN k.id = proof.verificationMethod
            ELSE ~k.revoked /\ (~Truthy(k.expiresAt) \/ k.expiresAt.n > clock)

\* C2: neither the trust store's verifySignature nor the signature stage of the
\* pipeline gives signatureValid = true when no public key resolves for the
\* issuer and the proof's verificationMethod (an unknown issuer, or a
\* verificationMethod that is no key id of the issuer). The pipeline is held
\* against the provisioned default bundle, whose issuers its key table repeats.
C2_SignatureGate ==
  /\ (Observed("verifySignature") /\ trustCall.outcome = Return(TRUE)) =>
       KeyResolves(trustBundle, trustCall.issuerId, trustCall.proof, now)
  /\ (path = "normal" /\ ~IsNullish(packet.proof) /\ Flags.signatureValid) =>
       KeyResolves(DEFAULT_TRUST_BUNDLE, OptionalIssuerId(packet.credential),
                   packet.proof, result.timestamp)

\* the trust store's half of C2, which the code keeps
C2_TrustStoreGate ==
  (Observed("verifySignature") /\ trustCall.outcome = Return(TRUE)) =>
    KeyResolves(trustBundle, trustCall.issuerId, trustCall.proof, now)

\* the proof types verifyVCOffline accepts: the RSA-based and the Ed25519-based
supportedProofs ==
  <<Str("RsaSignature2018"), Str("Ed25519Signature2018"), Str("Ed25519Signature2020")>>

\* C12: a proof whose type is neither Ed25519-based nor RSA-based never gives
\* signatureValid = true; the trust store's verifySignature answers false.
C12_UnsupportedProofNeverValid ==
  (/\ Observed("verifySignature")
   /\ ~IsNullish(trustCall.proof)
   /\ ~Includes(supportedProofs, trustCall.proof.type)) =>
    trustCall.outcome = Return(FALSE)

\* C3: with a bundle loaded, verifyIssuerTrust is true exactly when the issuer
\* is in the bundle and one of its keys is neither expired nor revoked (so it is
\* false for an issuer whose keys are all revoked, expired or not).
C3_TrustNeedsUsableKey ==
  (Observed("verifyIssuerTrust") /\ BundleLoaded) =>
    trustCall.outcome =
      Return(\E issuer \in IssuersOf(trustBundle) :
               /\ issuer.id = trustCall.issuerId
               /\ \E k \in KeysOf(issuer) :
                    /\ ~k.revoked
                    /\ ~(Truthy(k.expiresAt) /\ k.expiresAt.n < now))

\* what the code keeps of C3: the revoked flag plays no part
C3_TrustIgnoresRevocation ==
  (Observed("verifyIssuerTrust") /\ BundleLoaded) =>
    trustCall.outcome =
      Return(\E issuer \in IssuersOf(trustBundle) :
               /\ issuer.id = trustCall.issuerId
               /\ \E k \in KeysOf(issuer) :
                    ~(Truthy(k.expiresAt) /\ k.expiresAt.n < now))

\* C4: after any sequence of loadTrustBundle and updateRevocationList calls, a
\* credential is reported revoked for an issuer exactly when a revocation list
\* is cached for that issuer and holds the credential id; with no list cached
\* for the issuer, no credential is reported revoked.
C4_RevokedIffListed ==
  Observed("verifyCredentialRevocation") =>
    LET reportedRevoked == trustCall.outcome = Return(FALSE)
        issuerId == trustCall.issuerId
    IN /\ trustCall.outcome \in {Return(TRUE), Return(FALSE)}
       /\ reportedRevoked =
            (/\ issuerId \in DOMAIN revocationCache
             /\ \E i \in DOMAIN revocationCache[issuerId].revokedCredentials :
                  revocationCache[issuerId].revokedCredentials[i] = trustCall.credentialId)
       /\ issuerId \notin DOMAIN revocationCache => ~reportedRevoked

\* a credential reported revoked on the strength of a list that was pushed by
\* updateRevocationList and is in no list of the loaded bundle
C4_Witness ==
  /\ Observed("verifyCredentialRevocation")
  /\ trustCall.outcome = Return(FALSE)
  /\ Truthy(trustBundle)
  /\ \A i \in DOMAIN trustBundle.revocationLists.items :
       trustBundle.revocationLists.items[i].revokedCredentials = <<>>

\* a query for an issuer without a cached list, while another issuer has one
C4_FailOpenWitness ==
  /\ Observed("verifyCredentialRevocation")
  /\ trustCall.issuerId \notin DOMAIN revocationCache
  /\ revocationCache # <<>>
  /\ trustCall.outcome = Return(TRUE)

-----------------------------------------------------------------------------
(* The wire encodings *)

\* the order in which the properties of the model's objects were inserted
\* (atContext stands for '@context')
PropertyOrder ==
  <<"iss", "iat", "exp", "vc", "credential", "proof", "metadata", "nonce", "timestamp",
    "atContext", "id", "type", "issuer", "issuanceDate", "issuedAt", "expirationDate",
    "expiresAt", "credentialSubject", "proofType", "context", "verificationMethod",
    "proofValue">>

\* obj.key, undefined for a property the object does not have
Get(obj, key) == IF key \in DOMAIN obj THEN obj[key] ELSE Undefined

\* a property that is serialised only when it is truthy
Serialisable_truthyOnly(v) == Truthy(v)

\* JSON.stringify leaves out the properties whose value is undefined or a function
Serialisable(v) == v.tag \notin {"undefined", "function"}

\* JSON.stringify: the JSON text, as the tree of its tokens
RECURSIVE JSONstringify(_)
JSONstringify(v) ==
  CASE v.tag = "string" -> [json |-> "string", s |-> v.s]
    [] v.tag = "number" -> [json |-> "number", n |-> v.n]
    [] v.tag \in {"null", "NaN"} -> [json |-> "null"]
    [] v.tag = "array" ->
         [json |-> "array",
          items |-> [i \in DOMAIN v.items |->
                       IF Serialisable(v.items[i]) THEN JSONstringify(v.items[i])
                       ELSE [json |-> "null"]]]
    [] v.tag = "object" ->
         LET Own(k) == k \in DOMAIN v /\ Serialisable(v[k])
             keys == SelectSeq(PropertyOrder, Own)
         IN [json |-> "object",
             members |-> [i \in DOMAIN keys |->
                            [key |-> keys[i], value |-> JSONstringify(v[keys[i]])]]]

\* JSON.parse
RECURSIVE JSONparse(_)
JSONparse(j) ==
  CASE j.json = "string" -> Str(j.s)
    [] j.json = "number" -> Num(j.n)
    [] j.json = "null" -> Null
    [] j.json = "array" -> Arr([i \in DOMAIN j.items |-> JSONparse(j.items[i])])
    [] j.json = "object" ->
         LET keys == {j.members[i].key : i \in DOMAIN j.members}
             ValueOf(k) == (CHOOSE i \in DOMAIN j.members : j.members[i].key = k)
         IN [k \in keys \cup {"tag"} |->
               IF k = "tag" THEN "object" ELSE JSONparse(j.members[ValueOf(k)].value)]

\* TextEncoder.encode / TextDecoder.decode: the UTF-8 bytes of a JSON text
\* (always well-formed) and back
TextEncode(json) == [utf8 |-> json]
TextDecode(data) == data.utf8

encodeVCForBLE(pkt) == TextEncode(JSONstringify(pkt))

decodeVCFromBLE(data) == JSONparse(TextDecode(data))

encodeAsCWT(pkt) ==
  LET compact ==
        [tag |-> "object",
         iss |-> pkt.metadata.issuer,
         iat |-> pkt.timestamp,
         exp |-> IF Truthy(pkt.metadata.expiresAt)
                 THEN DateGetTime(pkt.metadata.expiresAt)
                 ELSE Undefined,
         vc |-> pkt.credential,
         proof |-> pkt.proof,
         nonce |-> pkt.nonce]
  IN TextEncode(JSONstringify(compact))

\* equality field for field, a missing property being an undefined one
RECURSIVE DeepEqual(_, _)
DeepEqual(a, b) ==
  IF a.tag # b.tag THEN FALSE
  ELSE CASE a.tag = "object" ->
              \A k \in (DOMAIN a \cup DOMAIN b) \ {"tag"} : DeepEqual(Get(a, k), Get(b, k))
         [] a.tag = "array" ->
              /\ Len(a.items) = Len(b.items)
              /\ \A i \in DOMAIN a.items : DeepEqual(a.items[i], b.items[i])
         [] OTHER -> a = b

CodecCredentials ==
  {[tag |-> "object"],
   [tag |-> "object", issuer |-> [tag |-> "object", id |-> Str("test")]],
   [tag |-> "object", atContext |-> W3CContext, type |-> Arr(<<Str("VerifiableCredential")>>),
    issuer |-> [tag |-> "object", id |-> Str(IssuerGov)], issuanceDate |-> DateString(1),
    expirationDate |-> Undefined,
    credentialSubject |-> [tag |-> "object", id |-> Str("did:mosip:holder:123")]]}

CodecProofs == {[tag |-> "object"], [tag |-> "object", type |-> Str("Ed25519Signature2020")]}

CodecPackets ==
  [tag : {"object"},
   credential : CodecCredentials,
   proof : CodecProofs,
   metadata : [tag : {"object"},
               issuer : {Str(""), Str("test")},
               issuedAt : {Str(""), DateString(1)},
               expiresAt : {Undefined, InvalidDateString, DateString(ExpiryInstant),
                            DateStringUTC(ExpiryInstant)},
               proofType : {Str(""), Str("Ed25519Signature2020")},
               context : {Arr(<<>>), W3CContext}],
   nonce : {Str(""), Str("test-nonce")},
   timestamp : {Num(0), Num(1)}]

Call_encodeVCForBLE ==
  /\ Idle
  /\ \E pkt \in CodecPackets :
       wire' = [op |-> "encodeVCForBLE", sent |-> pkt, data |-> encodeVCForBLE(pkt)]
  /\ UNCHANGED <<config, now, packet, rnd, path, result, trustBundle, loaded, revocationCache,
                 trustCall,
                 attempt, ble, faceService, qr, sync>>

\* the verifier decodes what the wallet put on the wire
Call_decodeVCFromBLE ==
  /\ wire # NoCall
  /\ wire.op = "encodeVCForBLE"
  /\ wire' = [op |-> "decodeVCFromBLE", sent |-> wire.sent, data |-> wire.data,
              received |-> decodeVCFromBLE(wire.data)]
  /\ UNCHANGED <<config, now, packet, rnd, path, result, trustBundle, loaded, revocationCache,
                 trustCall,
                 attempt, ble, faceService, qr, sync>>

Call_encodeAsCWT ==
  /\ Idle
  /\ \E pkt \in CodecPackets :
       wire' = [op |-> "encodeAsCWT", sent |-> pkt, data |-> encodeAsCWT(pkt)]
  /\ UNCHANGED <<config, now, packet, rnd, path, result, trustBundle, loaded, revocationCache,
                 trustCall,
                 attempt, ble, faceService, qr, sync>>

CodecNext ==
  \/ Call_encodeVCForBLE
  \/ Call_decodeVCFromBLE
  \/ Call_encodeAsCWT
  \/ Forget

SpecCodec == Init /\ [][CodecNext]_vars

-----------------------------------------------------------------------------
(* Properties of the wire encodings (SpecCodec) *)

Decoded == wire # NoCall /\ wire.op = "decodeVCFromBLE"

MetadataFields == {"issuer", "issuedAt", "expiresAt", "proofType", "context"}

\* C5: decodeVCFromBLE(encodeVCForBLE(p)) equals p in every field: credential,
\* proof, each metadata field (a missing expiresAt stays missing), nonce and
\* timestamp.
C5_RoundTrip ==
  Decoded =>
    /\ DeepEqual(wire.received, wire.sent)
    /\ DeepEqual(Get(wire.received, "credential"), wire.sent.credential)
    /\ DeepEqual(Get(wire.received, "proof"), wire.sent.proof)
    /\ \A f \in MetadataFields :
         DeepEqual(Get(Get(wire.received, "metadata"), f), wire.sent.metadata[f])
    /\ Get(wire.received, "nonce") = wire.sent.nonce
    /\ Get(wire.received, "timestamp") = wire.sent.timestamp

\* the packet whose fields are all empty, with no expiresAt, came back
C5_Witness ==
  /\ Decoded
  /\ wire.sent.credential = [tag |-> "object"]
  /\ wire.sent.proof = [tag |-> "object"]
  /\ wire.sent.metadata.issuer = Str("")
  /\ wire.sent.metadata.expiresAt = Undefined
  /\ wire.sent.nonce = Str("")
  /\ wire.sent.timestamp = Num(0)
  /\ "expiresAt" \notin DOMAIN wire.received.metadata

\* C6: the condensed encoding keeps every field of the packet, so two packets
\* that differ in a field have different condensed encodings.
C6_CondensedKeepsEveryField ==
  (wire # NoCall /\ wire.op = "encodeAsCWT") =>
    \A other \in CodecPackets :
      ~DeepEqual(other, wire.sent) => encodeAsCWT(other) # wire.data

-----------------------------------------------------------------------------
(* The pipeline beside the trust store (SpecSession) *)

\* the bundles a session is provisioned with: the default one, one without
\* issuers, and the default issuers with the credential on the government list
SessionBundles ==
  {DEFAULT_TRUST_BUNDLE,
   TrustBundle(Arr(<<>>), Arr(<<>>)),
   TrustBundle(Arr(<<DefaultGovIssuer, DefaultHealthIssuer>>),
               Arr(<<RevocationList(IssuerGov, <<CredentialId>>)>>))}

SessionFetches == {Fetched(b) : b \in SessionBundles}

SessionNext ==
  \/ LoadTrustBundle(SessionFetches)
  \/ Call_verifyCredentialOffline
  \/ Tick
  \/ Forget

SpecSession == Init /\ [][SessionNext]_vars

\* C11: with a bundle loaded, the issuerTrusted flag of a verdict is the trust
\* store's verifyIssuerTrust answer for the same issuer id against that bundle.
C11_IssuerTrustDelegates ==
  (path = "normal" /\ BundleLoaded) =>
    TMS_verifyIssuerTrust(trustBundle, packet.metadata.issuer, result.timestamp)
      = Return(Flags.issuerTrusted)

\* the verdict is for a credential whose id is on the revocation list cached for
\* its issuer
CredentialRevoked ==
  /\ path = "normal"
  /\ ~IsNullish(packet.credential)
  /\ packet.metadata.issuer = OptionalIssuerId(packet.credential)
  /\ ~verifyCredentialRevocation(revocationCache, OptionalIssuerId(packet.credential),
                                 packet.credential.id)

\* C13: the pipeline consults the trust store's revocation answer after the
\* four mandatory stages, and a credential whose id is on its issuer's cached
\* revocation list gets a verdict with success = false.
C13_RevokedNeverSucceeds ==
  CredentialRevoked => ~result.success

\* the fields of a verdict and of its verification record
VerdictFields == {"success", "credential", "verification", "errors", "timestamp"}
FlagFields == {"signatureValid", "issuerTrusted", "notExpired", "formatValid", "faceMatch"}

\* C14: the verdict for a credential on its issuer's revocation list reports
\* the revocation through a field of its own or a reason of its own in the
\* errors list, apart from the four mandatory flags and their reasons.
C14_RevocationReported ==
  CredentialRevoked =>
    \/ DOMAIN result # VerdictFields
    \/ DOMAIN Flags # FlagFields
    \/ \E i \in DOMAIN result.errors :
         result.errors[i] \notin {FormatReason, ExpiryReason, TrustReason, SignatureReason}

-----------------------------------------------------------------------------
(* The other queries of the trust store (SpecStore) *)

\* a === b: the same primitive; two arrays or objects parsed apart are never
\* the same object
StrictEquals(a, b) == a.tag \notin {"array", "object", "NaN"} /\ a = b

getSupportedProofTypes(bundle, issuerId) ==
  IF BundleReadThrows(bundle) THEN BundleReadError(bundle)
  ELSE LET issuer == FindIssuer(bundle, issuerId)
       IN IF IsNullish(issuer) THEN Return(Arr(<<>>))
          ELSE IF Truthy(issuer.metadata.supportedProofTypes)
            THEN Return(issuer.metadata.supportedProofTypes)
          ELSE Return(Arr(<<>>))

validateCredentialSchema(bundle, credential) ==
  IF ~Truthy(bundle) THEN Throw("Trust bundle not loaded")
  ELSE IF IsNullish(credential)
    THEN Throw("Cannot read properties of null (reading 'type')")
  ELSE IF IsNullish(bundle.schemas)
    THEN Throw("Cannot read properties of undefined (reading 'some')")
  ELSE LET credentialType == Get(credential, "type")
           schemas == bundle.schemas.items
           Supports(schema) ==
             \/ StrictEquals(Get(schema, "type"), credentialType)
             \/ LET supportedTypes == Get(schema, "supportedTypes")
                IN /\ ~IsNullish(supportedTypes)
                   /\ \E i \in DOMAIN supportedTypes.items :
                        StrictEquals(supportedTypes.items[i], credentialType)
       IN Return(\E i \in DOMAIN schemas : Supports(schemas[i]))

getIssuerMetadata(bundle, issuerId) ==
  IF BundleReadThrows(bundle) THEN BundleReadError(bundle)
  ELSE LET issuer == FindIssuer(bundle, issuerId)
       IN IF IsNullish(issuer) THEN Return(Null)
          ELSE Return(OrNull(issuer.metadata))

\* a validity check that forgets the expiry
isTrustBundleValid_ignoresExpiry(bundle, clock, random) ==
  IF ~Truthy(bundle) THEN FALSE ELSE random

\* random is the outcome of Math.random() > 0.05 in
\* simulateTrustBundleSignatureVerification
isTrustBundleValid(bundle, clock, random) ==
  IF ~Truthy(bundle) THEN FALSE
  ELSE IF NumLT(bundle.expiresAt, Num(clock)) THEN FALSE
  ELSE random

\* the credentials whose schema is asked for
SchemaCredentials ==
  {Null,
   [tag |-> "object", type |-> Str("VerifiableCredential")],
   [tag |-> "object", type |-> Str("DrivingLicence")],
   [tag |-> "object", type |-> Arr(<<Str("VerifiableCredential")>>)],
   [tag |-> "object",
    type |-> Arr(<<Str("VerifiableCredential"), Str("MOSIPCredential")>>)],
   [tag |-> "object", type |-> Arr(<<Str("UnsupportedCredential")>>)]}

Call_getSupportedProofTypes ==
  /\ Idle
  /\ \E issuerId \in QueryIssuers :
       trustCall' = [op |-> "getSupportedProofTypes", issuerId |-> issuerId,
                     outcome |-> getSupportedProofTypes(trustBundle, issuerId)]
  /\ UNCHANGED <<config, now, packet, rnd, path, result, trustBundle, loaded,
                 revocationCache, wire,
                 attempt, ble, faceService, qr, sync>>

Call_validateCredentialSchema ==
  /\ Idle
  /\ \E credential \in SchemaCredentials :
       trustCall' = [op |-> "validateCredentialSchema", credential |-> credential,
                     outcome |-> validateCredentialSchema(trustBundle, credential)]
  /\ UNCHANGED <<config, now, packet, rnd, path, result, trustBundle, loaded,
                 revocationCache, wire,
                 attempt, ble, faceService, qr, sync>>

Call_getIssuerMetadata ==
  /\ Idle
  /\ \E issuerId \in QueryIssuers :
       trustCall' = [op |-> "getIssuerMetadata", issuerId |-> issuerId,
                     outcome |-> getIssuerMetadata(trustBundle, issuerId)]
  /\ UNCHANGED <<config, now, packet, rnd, path, result, trustBundle, loaded,
                 revocationCache, wire,
                 attempt, ble, faceService, qr, sync>>

Call_isTrustBundleValid ==
  /\ Idle
  /\ \E random \in BOOLEAN :
       trustCall' = [op |-> "isTrustBundleValid", random |-> random,
                     outcome |-> Return(isTrustBundleValid(trustBundle, now, random))]
  /\ UNCHANGED <<config, now, packet, rnd, path, result, trustBundle, loaded,
                 revocationCache, wire, attempt, ble, faceService, qr, sync>>

\* the bundles the server can deliver: the default bundle with or without an
\* expiry that passes while the clock runs, an empty version, an empty
\* signature; and a bundle without issuers
StoreBundles ==
  {[DEFAULT_TRUST_BUNDLE EXCEPT !.expiresAt = e, !.version = v, !.signature = g] :
     e \in {Num(ExpiryInstant), Num(MaxTime + 30)},
     v \in {Str(""), Str("1.0.0")},
     g \in {Str(""), Str("mock-trust-bundle-signature")}}
  \cup {TrustBundle(Arr(<<>>), Arr(<<>>))}

StoreFetches ==
  FailedFetches \cup {Fetched(b) : b \in StoreBundles \cup MalformedBundles}

StoreNext ==
  \/ LoadTrustBundle(StoreFetches)
  \/ Call_verifyIssuerTrust
  \/ Call_getIssuerPublicKey
  \/ Call_getSupportedProofTypes
  \/ Call_validateCredentialSchema
  \/ Call_getIssuerMetadata
  \/ Call_isTrustBundleValid
  \/ Tick
  \/ Forget

SpecStore == Init /\ [][StoreNext]_vars

-----------------------------------------------------------------------------
(* Properties of the key lookup and of loading (SpecTrust, SpecStore) *)

\* the key a lookup must return: nothing for an unknown issuer; with a key id,
\* the issuer's key of that id or nothing; without one, the first key in list
\* order that is neither revoked nor expired, or nothing
KeyLookupIs(given, out) ==
  LET named == {i \in IssuersOf(trustBundle) : i.id = trustCall.issuerId}
  IN IF named = {} THEN out = Return(Null)
     ELSE LET keys == (CHOOSE i \in named : TRUE).publicKeys
              withId == {i \in DOMAIN keys : keys[i].id = trustCall.keyId}
              usable == {i \in DOMAIN keys :
                           /\ ~keys[i].revoked
                           /\ ~(Truthy(keys[i].expiresAt) /\ keys[i].expiresAt.n <= now)}
          IN IF given
             THEN /\ out.tag = "return"
                  /\ IF withId = {} THEN out.value = Null
                     ELSE \E i \in withId : out.value = keys[i]
             ELSE IF usable = {} THEN out = Return(Null)
             ELSE out = Return(keys[CHOOSE i \in usable : \A j \in usable : i <= j])

\* C15: on a loaded bundle getIssuerPublicKey returns nothing for an unknown
\* issuer; when a keyId is given, the issuer's key with that id or nothing, never
\* another key; when keyId is omitted, the first key in list order that is
\* neither revoked nor expired, or nothing when there is none.
C15_KeyLookup ==
  (Observed("getIssuerPublicKey") /\ BundleLoaded) =>
    KeyLookupIs(trustCall.keyId # Undefined, trustCall.outcome)

\* what the code keeps of C15: an empty keyId counts as omitted
C15_KeyLookupNonEmpty ==
  (Observed("getIssuerPublicKey") /\ BundleLoaded) =>
    KeyLookupIs(Truthy(trustCall.keyId), trustCall.outcome)

\* the queries that read the bundle
BundleQueries ==
  {"verifyIssuerTrust", "getIssuerPublicKey", "getSupportedProofTypes",
   "validateCredentialSchema", "getIssuerMetadata"}

\* C16: before any loadTrustBundle call has succeeded, every query that reads
\* the bundle fails with 'Trust bundle not loaded' instead of answering.
C16_NotLoadedBeforeLoad ==
  (~loaded /\ trustCall # NoCall /\ trustCall.op \in BundleQueries) =>
    trustCall.outcome = Throw("Trust bundle not loaded")

\* what the code keeps of C16: a store whose bundle field was never assigned
C16_NotLoadedWhileNull ==
  (trustBundle = Null /\ trustCall # NoCall /\ trustCall.op \in BundleQueries) =>
    trustCall.outcome = Throw("Trust bundle not loaded")

\* the fetched bundle passes the three checks: it has its issuers and a
\* version, its expiresAt has not passed, and it carries a signature
BundleChecksPass(bundle, clock) ==
  /\ ~IsNullish(bundle)
  /\ ~IsNullish(bundle.issuers)
  /\ Truthy(bundle.version)
  /\ ~NumLT(bundle.expiresAt, Num(clock))
  /\ Truthy(bundle.signature)

\* C17: loadTrustBundle fails, and does not install the bundle, when the
\* fetched bundle's expiresAt has passed, when its signature does not verify or
\* when it is structurally invalid; only a bundle passing all three checks
\* becomes the store's bundle.
C17_LoadValidates ==
  (Observed("loadTrustBundle") /\ trustCall.fetched.tag = "json") =>
    IF BundleChecksPass(trustCall.fetched.body, now)
    THEN trustCall.outcome.tag = "return" => trustBundle = trustCall.fetched.body
    ELSE /\ trustCall.outcome.tag = "throw"
         /\ trustBundle = trustCall.before.trustBundle

\* the part of C17 about expiry alone: a load of an expired bundle fails
C17_ExpiredBundleRejected ==
  (/\ Observed("loadTrustBundle")
   /\ trustCall.fetched.tag = "json"
   /\ ~IsNullish(trustCall.fetched.body)
   /\ NumLT(trustCall.fetched.body.expiresAt, Num(now))) =>
    trustCall.outcome.tag = "throw"

\* the store is as the last loadTrustBundle call found it
StoreAsBefore ==
  /\ trustBundle = trustCall.before.trustBundle
  /\ revocationCache = trustCall.before.revocationCache

\* C18: a loadTrustBundle call that fails (fetch not ok, network error, parse
\* failure, or a bundle without its revocationLists or issuers) leaves the
\* bundle and the revocation cache exactly as they were before the call.
C18_FailedLoadChangesNothing ==
  (Observed("loadTrustBundle") /\ trustCall.outcome.tag = "throw") => StoreAsBefore

\* what the code keeps of C18: a load that fails before response.json() has
\* delivered a body changes nothing
C18_FailedFetchChangesNothing ==
  (Observed("loadTrustBundle") /\ trustCall.fetched.tag # "json") =>
    /\ trustCall.outcome.tag = "throw"
    /\ StoreAsBefore

-----------------------------------------------------------------------------
(* Properties of the revocation cache (SpecRevocation) *)

\* the cache a load must leave: one entry per issuer id of the bundle's
\* revocationLists, the last list of that id in list order
RebuiltCache(lists) ==
  LET ids == {lists[i].issuerId : i \in DOMAIN lists}
      LastOf(id) == CHOOSE i \in DOMAIN lists :
                      /\ lists[i].issuerId = id
                      /\ \A j \in DOMAIN lists : lists[j].issuerId = id => j <= i
  IN [id \in ids |-> lists[LastOf(id)]]

\* C19: after every successful loadTrustBundle the revocation cache holds
\* exactly one entry per issuer id of the new bundle's revocationLists (the
\* last one when an id is repeated) and nothing left over from an earlier
\* bundle or an earlier updateRevocationList.
C19_CacheRebuiltOnLoad ==
  (Observed("loadTrustBundle") /\ trustCall.outcome.tag = "return") =>
    /\ DOMAIN revocationCache = DOMAIN RebuiltCache(trustBundle.revocationLists.items)
    /\ \A id \in DOMAIN revocationCache :
         revocationCache[id] = RebuiltCache(trustBundle.revocationLists.items)[id]

\* what the code keeps of C19: the lists of the new bundle are cached, the last
\* one winning, on top of the entries the cache already had
C19_CacheMergedOnLoad ==
  (Observed("loadTrustBundle") /\ trustCall.outcome.tag = "return") =>
    LET rebuilt == RebuiltCache(trustBundle.revocationLists.items)
        old == trustCall.before.revocationCache
    IN /\ DOMAIN revocationCache = DOMAIN rebuilt \cup DOMAIN old
       /\ \A id \in DOMAIN revocationCache :
            revocationCache[id] = IF id \in DOMAIN rebuilt THEN rebuilt[id] ELSE old[id]

\* C20: updateRevocationList(issuerId, list) changes only the cached list of
\* that issuer: its revocation answers follow the new list, the revocation
\* answers for every other issuer are what they were, and the bundle with its
\* issuers and keys, the issuer-trust answers and the public-key answers are
\* what they were.
C20_UpdateTouchesOneIssuer ==
  Observed("updateRevocationList") =>
    LET old == trustCall.before
    IN /\ MapGet(revocationCache, trustCall.issuerId) = trustCall.list
       /\ \A credentialId \in QueryCredentialIds :
            verifyCredentialRevocation(revocationCache, trustCall.issuerId, credentialId)
              = ~Includes(trustCall.list.revokedCredentials, credentialId)
       /\ \A other \in QueryIssuers \ {trustCall.issuerId} :
            /\ MapGet(revocationCache, other) = MapGet(old.revocationCache, other)
            /\ \A credentialId \in QueryCredentialIds :
                 verifyCredentialRevocation(revocationCache, other, credentialId)
                   = verifyCredentialRevocation(old.revocationCache, other, credentialId)
       /\ DOMAIN revocationCache = DOMAIN old.revocationCache \cup {trustCall.issuerId}
       /\ trustBundle = old.trustBundle
       /\ \A issuerId \in QueryIssuers :
            /\ TMS_verifyIssuerTrust(trustBundle, issuerId, now)
                 = TMS_verifyIssuerTrust(old.trustBundle, issuerId, now)
            /\ \A keyId \in QueryKeyIds :
                 getIssuerPublicKey(trustBundle, issuerId, keyId, now)
                   = getIssuerPublicKey(old.trustBundle, issuerId, keyId, now)

\* a list was swapped in that revokes the credential for an issuer that had a
\* list without it, while another issuer's list revokes it, before and after
C20_Witness ==
  /\ Observed("updateRevocationList")
  /\ trustCall.issuerId \in DOMAIN trustCall.before.revocationCache
  /\ verifyCredentialRevocation(trustCall.before.revocationCache, trustCall.issuerId,
                                CredentialId)
  /\ ~verifyCredentialRevocation(revocationCache, trustCall.issuerId, CredentialId)
  /\ \E other \in DOMAIN revocationCache \ {trustCall.issuerId} :
       ~verifyCredentialRevocation(revocationCache, other, CredentialId)
  /\ BundleLoaded

-----------------------------------------------------------------------------
(* Properties of the bundle validity check (SpecStore) *)

\* C21 as stated: isTrustBundleValid answers false when no bundle is loaded,
\* false when the loaded bundle's expiresAt has passed, and true on every call
\* for a loaded, unexpired bundle.
C21_ValidIffLoadedUnexpired ==
  Observed("isTrustBundleValid") =>
    trustCall.outcome =
      Return(Truthy(trustBundle) /\ ~NumLT(trustBundle.expiresAt, Num(now)))

\* C21: isTrustBundleValid answers false when no bundle is loaded and false
\* when the loaded bundle's expiresAt has passed; for a loaded, unexpired bundle
\* it answers with the outcome of the bundle signature check it makes on every
\* call, so a true answer implies a loaded, unexpired bundle.
C21_ValidIsLoadedUnexpiredSigned ==
  Observed("isTrustBundleValid") =>
    trustCall.outcome =
      Return(/\ Truthy(trustBundle)
             /\ ~(trustBundle.expiresAt.n < now)
             /\ trustCall.random)

\* a loaded bundle whose expiry has passed was answered false although the
\* signature check would have passed
C21_Witness ==
  /\ Observed("isTrustBundleValid")
  /\ Truthy(trustBundle)
  /\ trustBundle.expiresAt.n < now
  /\ trustCall.random
  /\ trustCall.outcome = Return(FALSE)

-----------------------------------------------------------------------------
(* The BLE session of one service instance (SpecBLE) *)

\* the pending timers a service may have armed
MaxTimers == 2

\* setTimeout(..., 30000) of startAdvertising
AdvertisingTimeoutMs == 30000
\* setTimeout(..., 10000) of scanForCredentials
ScanTimeoutMs == 10000

Timer(kind, delayMs) == [kind |-> kind, delayMs |-> delayMs]

\* an advertising start that raises the flag before it looks at the role
startAdvertising_flagFirst(service, cfg, credential, proof) ==
  LET raised == [service EXCEPT !.isAdvertising = TRUE]
  IN IF cfg.deviceRole # "wallet"
     THEN [service |-> raised,
           outcome |-> Throw("Only wallet devices can advertise credentials")]
     ELSE IF IsNullish(credential)
     THEN [service |-> raised,
           outcome |-> Throw("Cannot read properties of null (reading 'issuer')")]
     ELSE IF IsNullish(proof)
     THEN [service |-> raised,
           outcome |-> Throw("Cannot read properties of null (reading 'type')")]
     ELSE [service |-> [raised EXCEPT !.timers =
                          Append(@, Timer("advertising", AdvertisingTimeoutMs))],
           outcome |-> Return(Undefined)]

\* the role is read from the config object the constructor was given; the flag
\* is raised before the packet is built, the timer is armed after it
startAdvertising(service, cfg, credential, proof) ==
  IF cfg.deviceRole # "wallet"
  THEN [service |-> service,
        outcome |-> Throw("Only wallet devices can advertise credentials")]
  ELSE LET raised == [service EXCEPT !.isAdvertising = TRUE]
       IN IF IsNullish(credential)
          THEN [service |-> raised,
                outcome |-> Throw("Cannot read properties of null (reading 'issuer')")]
          ELSE IF IsNullish(proof)
          THEN [service |-> raised,
                outcome |-> Throw("Cannot read properties of null (reading 'type')")]
          ELSE [service |-> [raised EXCEPT !.timers =
                               Append(@, Timer("advertising", AdvertisingTimeoutMs))],
                outcome |-> Return(Undefined)]

scanForCredentials(service, cfg) ==
  IF cfg.deviceRole # "verifier"
  THEN [service |-> service,
        outcome |-> Throw("Only verifier devices can scan for credentials")]
  ELSE [service |-> [service EXCEPT !.isScanning = TRUE,
                                    !.timers = Append(@, Timer("scanning", ScanTimeoutMs))],
        outcome |-> Return(Arr(<<>>))]

\* a stop that flips the flag
stopAdvertising_toggles(service) ==
  [service EXCEPT !.isAdvertising = ~@]

\* the flag is lowered; the timer stays armed
stopAdvertising(service) ==
  [service EXCEPT !.isAdvertising = FALSE]

stopScanning(service) ==
  [service EXCEPT !.isScanning = FALSE]

getStatus(service) ==
  [isScanning |-> service.isScanning, isAdvertising |-> service.isAdvertising]

\* the callback of the i-th pending timer
TimerCallback(service, i) ==
  LET lowered == IF service.timers[i].kind = "advertising"
                 THEN [service EXCEPT !.isAdvertising = FALSE]
                 ELSE [service EXCEPT !.isScanning = FALSE]
  IN [lowered EXCEPT !.timers =
        SubSeq(service.timers, 1, i - 1) \o SubSeq(service.timers, i + 1, Len(service.timers))]

AdvertisedCredentials ==
  {Null,
   [tag |-> "object", id |-> CredentialId, atContext |-> W3CContext,
    type |-> Arr(<<Str("VerifiableCredential")>>),
    issuer |-> [tag |-> "object", id |-> Str(IssuerGov)],
    issuanceDate |-> DateString(1), expirationDate |-> Undefined,
    credentialSubject |-> [tag |-> "object", id |-> Str("did:mosip:holder:123")]]}

AdvertisedProofs ==
  {Null,
   [tag |-> "object", type |-> Str("Ed25519Signature2020"),
    verificationMethod |-> GovKeyId(1), proofValue |-> Str("mock-signature")]}

\* which pending timers were armed by a session that was stopped since: one
\* more timer is not stale, a stop makes the timers of its kind stale
StaleArmed(stale, after) ==
  IF Len(after.timers) > Len(stale) THEN Append(stale, FALSE) ELSE stale

StaleStopped(stale, service, kind) ==
  [i \in DOMAIN stale |-> stale[i] \/ service.timers[i].kind = kind]

BLECall(op, out) ==
  [op |-> op, role |-> config.deviceRole, before |-> ble.service,
   outcome |-> out.outcome]

Call_startAdvertising ==
  /\ Len(ble.service.timers) < MaxTimers
  /\ \E credential \in AdvertisedCredentials : \E proof \in AdvertisedProofs :
       LET out == startAdvertising(ble.service, config, credential, proof)
       IN ble' = [ble EXCEPT !.service = out.service,
                             !.call = BLECall("startAdvertising", out),
                             !.stale = StaleArmed(@, out.service)]
  /\ UNCHANGED <<config, now, packet, rnd, path, result, trustBundle, loaded,
                 revocationCache, trustCall, wire, attempt, faceService, qr, sync>>

Call_scanForCredentials ==
  /\ Len(ble.service.timers) < MaxTimers
  /\ LET out == scanForCredentials(ble.service, config)
     IN ble' = [ble EXCEPT !.service = out.service,
                           !.call = BLECall("scanForCredentials", out),
                           !.stale = StaleArmed(@, out.service)]
  /\ UNCHANGED <<config, now, packet, rnd, path, result, trustBundle, loaded,
                 revocationCache, trustCall, wire, attempt, faceService, qr, sync>>

Call_stopAdvertising ==
  /\ LET out == [service |-> stopAdvertising(ble.service), outcome |-> Return(Undefined)]
     IN ble' = [ble EXCEPT !.service = out.service,
                           !.call = BLECall("stopAdvertising", out),
                           !.stale = StaleStopped(@, ble.service, "advertising")]
  /\ UNCHANGED <<config, now, packet, rnd, path, result, trustBundle, loaded,
                 revocationCache, trustCall, wire, attempt, faceService, qr, sync>>

Call_stopScanning ==
  /\ LET out == [service |-> stopScanning(ble.service), outcome |-> Return(Undefined)]
     IN ble' = [ble EXCEPT !.service = out.service,
                           !.call = BLECall("stopScanning", out),
                           !.stale = StaleStopped(@, ble.service, "scanning")]
  /\ UNCHANGED <<config, now, packet, rnd, path, result, trustBundle, loaded,
                 revocationCache, trustCall, wire, attempt, faceService, qr, sync>>

Call_getStatus ==
  /\ ble' = [ble EXCEPT !.call =
               BLECall("getStatus", [outcome |-> Return(getStatus(ble.service))])]
  /\ UNCHANGED <<config, now, packet, rnd, path, result, trustBundle, loaded,
                 revocationCache, trustCall, wire, attempt, faceService, qr, sync>>

\* a pending timer expires: its callback lowers the flag and tells nobody
TimerFires ==
  /\ \E i \in DOMAIN ble.service.timers :
       ble' = [ble EXCEPT
                 !.service = TimerCallback(ble.service, i),
                 !.call = [op |-> "timerCallback", role |-> config.deviceRole,
                           before |-> ble.service, timer |-> ble.service.timers[i],
                           stale |-> ble.stale[i],
                           outcome |-> Return(Undefined)],
                 !.stale = SubSeq(@, 1, i - 1) \o SubSeq(@, i + 1, Len(@))]
  /\ UNCHANGED <<config, now, packet, rnd, path, result, trustBundle, loaded,
                 revocationCache, trustCall, wire, attempt, faceService, qr, sync>>

\* the caller writes the deviceRole of the config object it gave the service
SetDeviceRole ==
  /\ \E role \in Roles \ {config.deviceRole} :
       config' = [config EXCEPT !.deviceRole = role]
  /\ ble' = [ble EXCEPT !.roleChanged = TRUE]
  /\ UNCHANGED <<now, packet, rnd, path, result, trustBundle, loaded,
                 revocationCache, trustCall, wire, attempt, faceService, qr, sync>>

BLENext ==
  \/ Call_startAdvertising
  \/ Call_scanForCredentials
  \/ Call_stopAdvertising
  \/ Call_stopScanning
  \/ Call_getStatus
  \/ TimerFires
  \/ SetDeviceRole

SpecBLE == Init /\ [][BLENext]_vars

BLEObserved(op) == ble.call # NoCall /\ ble.call.op = op

-----------------------------------------------------------------------------
(* Properties of the BLE session (SpecBLE) *)

\* the call was made under a role that may not make it
RoleViolated ==
  \/ BLEObserved("startAdvertising") /\ ble.call.role = "verifier"
  \/ BLEObserved("scanForCredentials") /\ ble.call.role = "wallet"

\* C23: a wallet-role service calling scanForCredentials and a verifier-role
\* service calling startAdvertising both fail with a role-violation error, and
\* the failed call leaves the session state unchanged: both flags keep their
\* values and no timer is armed.
C23_RoleViolationChangesNothing ==
  RoleViolated =>
    /\ ble.call.outcome =
         (IF ble.call.op = "startAdvertising"
          THEN Throw("Only wallet devices can advertise credentials")
          ELSE Throw("Only verifier devices can scan for credentials"))
    /\ ble.service = ble.call.before

\* a service that is advertising with its timer armed refused to advertise
\* under the verifier role
C23_Witness ==
  /\ BLEObserved("startAdvertising")
  /\ ble.call.role = "verifier"
  /\ ble.call.before.isAdvertising
  /\ ble.call.before.timers # <<>>
  /\ ble.call.outcome.tag = "throw"

\* the activity the call starts was already running
SessionActive ==
  \/ BLEObserved("startAdvertising") /\ ble.call.before.isAdvertising
  \/ BLEObserved("scanForCredentials") /\ ble.call.before.isScanning

\* C24: at most one BLE session is active per service: startAdvertising while
\* advertising is active, or scanForCredentials while scanning is active, fails
\* with a SessionBusy error and leaves the running session, its flag and its
\* timeout, unchanged.
C24_SecondStartIsBusy ==
  (SessionActive /\ ~RoleViolated) =>
    /\ ble.call.outcome = Throw("SessionBusy")
    /\ ble.service = ble.call.before

\* what the code keeps of C24: a second start under the right role never fails
\* as busy; with a credential and a proof it succeeds and arms one more timer
C24_SecondStartArmsAgain ==
  (SessionActive /\ ~RoleViolated /\ ble.call.outcome.tag = "return") =>
    Len(ble.service.timers) = Len(ble.call.before.timers) + 1

\* C25: stopAdvertising and stopScanning can be called in any session state
\* without faulting; after a stop the corresponding flag is false, the other
\* flag and the timers are as before, and a second stop leaves the state
\* exactly as the first did.
C25_StopIsSafeAndIdempotent ==
  /\ BLEObserved("stopAdvertising") =>
       /\ ble.call.outcome = Return(Undefined)
       /\ ~ble.service.isAdvertising
       /\ ble.service.isScanning = ble.call.before.isScanning
       /\ ble.service.timers = ble.call.before.timers
       /\ stopAdvertising(ble.service) = ble.service
  /\ BLEObserved("stopScanning") =>
       /\ ble.call.outcome = Return(Undefined)
       /\ ~ble.service.isScanning
       /\ ble.service.isAdvertising = ble.call.before.isAdvertising
       /\ ble.service.timers = ble.call.before.timers
       /\ stopScanning(ble.service) = ble.service

\* advertising was stopped when it was no longer active, the timer of an
\* earlier start still pending
C25_Witness ==
  /\ BLEObserved("stopAdvertising")
  /\ ~ble.call.before.isAdvertising
  /\ \E i \in DOMAIN ble.service.timers : ble.service.timers[i].kind = "advertising"
  /\ ~ble.service.isAdvertising

\* C26: after a successful start with no stop, the session leaves the active
\* state when the caller-supplied timeout config.timeoutMs expires, and the
\* expiry is reported as a Timeout outcome: every armed timer runs for
\* config.timeoutMs and its callback reports Timeout.
C26_TimeoutFromConfig ==
  /\ \A i \in DOMAIN ble.service.timers :
       ble.service.timers[i].delayMs = config.timeoutMs
  /\ BLEObserved("timerCallback") =>
       /\ ble.call.timer.delayMs = config.timeoutMs
       /\ ble.call.outcome = Return(Str("Timeout"))

\* what the code keeps of C26: the callback of a timer lowers the flag of its
\* activity and of no other
C26_ExpiryLowersFlag ==
  BLEObserved("timerCallback") =>
    IF ble.call.timer.kind = "advertising"
    THEN ~ble.service.isAdvertising /\ ble.service.isScanning = ble.call.before.isScanning
    ELSE ~ble.service.isScanning /\ ble.service.isAdvertising = ble.call.before.isAdvertising

\* C27: in every reachable state of one service instance isAdvertising and
\* isScanning are never both true, whatever the caller does with the config
\* object after constructing the service.
C27_NeverBothActive ==
  ~(ble.service.isAdvertising /\ ble.service.isScanning)

\* what the code keeps of C27: the flags are never both true while the caller
\* has left the config object alone
C27_NeverBothActiveUnderOneRole ==
  ~ble.roleChanged => ~(ble.service.isAdvertising /\ ble.service.isScanning)

-----------------------------------------------------------------------------
(* The face match step of the pipeline (SpecVerify) *)

\* the verdict of the same packet, clock and signature draw when the face
\* match step is not run
WithoutFaceStep ==
  verifyCredentialOffline(packet, [config EXCEPT !.deviceRole = "wallet"],
                          result.timestamp, rnd)

-----------------------------------------------------------------------------
(* OfflineFaceMatchService (SpecFace) *)

\* the initialize calls that may be waiting for loadModel at one time
MaxInitializing == 2

\* 1.0 in ten-thousandths
One == 10000

Min(a, b) == IF a <= b THEN a ELSE b
Max(a, b) == IF a >= b THEN a ELSE b

NotInitialized == Throw("Face matching service not initialized")

\* one face in the centre of the image, faceSize = min(width, height) * 0.3;
\* lengths are in twentieths of a pixel, which leaves every ratio as it is.
\* The landmarks and the detection confidence are read by no caller.
simulateFaceDetection(image) ==
  LET centerX == image.width * 10
      centerY == image.height * 10
      faceSize == Min(image.width, image.height) * 6
  IN <<[boundingBox |-> [x |-> centerX - faceSize \div 2,
                         y |-> centerY - faceSize \div 2,
                         width |-> faceSize, height |-> faceSize]]>>

\* intersection / union, in ten-thousandths
calculateBoundingBoxOverlap(box1, box2) ==
  LET x1 == Max(box1.x, box2.x)
      y1 == Max(box1.y, box2.y)
      x2 == Min(box1.x + box1.width, box2.x + box2.width)
      y2 == Min(box1.y + box1.height, box2.y + box2.height)
      intersection == (x2 - x1) * (y2 - y1)
      area1 == box1.width * box1.height
      area2 == box2.width * box2.height
      union == area1 + area2 - intersection
  IN IF x2 <= x1 \/ y2 <= y1 THEN 0 ELSE (intersection * One) \div union

\* baseSimilarity is 0.6 + Math.random() * 0.3
simulateFaceSimilarity(face1, face2, baseSimilarity) ==
  LET overlap == calculateBoundingBoxOverlap(face1.boundingBox, face2.boundingBox)
  IN Min(baseSimilarity + (overlap * 2) \div 10, One)

\* a null image makes simulateFaceDetection throw; the catch block answers
detectFaces(service, image) ==
  IF ~service.modelLoaded THEN NotInitialized
  ELSE IF IsNullish(image)
  THEN Return([faces |-> <<>>, success |-> FALSE,
               error |-> Str("Cannot read properties of null (reading 'width')")])
  ELSE Return([faces |-> simulateFaceDetection(image), success |-> TRUE,
               error |-> Undefined])

FaceMatchResult(match, confidence, similarity, error) ==
  [match |-> match, confidence |-> confidence, similarity |-> similarity, error |-> error]

\* a missing face answered with confidence 0 and no error
NoFaceDetected_silent(which) ==
  Return(FaceMatchResult(FALSE, 0, 0, Undefined))

\* the answer of matchFaces when the reference or the candidate has no face
NoFaceDetected(which) ==
  Return(FaceMatchResult(FALSE, 0, 0, Str("No face detected in " \o which \o " image")))

\* a match that needs more than the threshold
matchFaces_strict(service, referenceImage, candidateImage, baseSimilarity) ==
  IF ~service.modelLoaded THEN NotInitialized
  ELSE LET refDetection == detectFaces(service, referenceImage)
           candDetection == detectFaces(service, candidateImage)
           refFaces == refDetection.value
           candFaces == candDetection.value
       IN \* the catch block of matchFaces
          IF refDetection.tag = "throw"
          THEN Return(FaceMatchResult(FALSE, 0, 0, Str(refDetection.message)))
          ELSE IF candDetection.tag = "throw"
          THEN Return(FaceMatchResult(FALSE, 0, 0, Str(candDetection.message)))
          ELSE IF Len(refFaces.faces) = 0
          THEN NoFaceDetected("reference")
          ELSE IF Len(candFaces.faces) = 0
          THEN NoFaceDetected("candidate")
          ELSE LET similarity == simulateFaceSimilarity(refFaces.faces[1], candFaces.faces[1],
                                                        baseSimilarity)
                   confidence == Min((similarity * 12) \div 10, One)
                   match == confidence > service.config.confidenceThreshold
               IN Return(FaceMatchResult(match, confidence, similarity,
                           IF match THEN Undefined
                           ELSE Str("Face match confidence below threshold")))

matchFaces(service, referenceImage, candidateImage, baseSimilarity) ==
  IF ~service.modelLoaded THEN NotInitialized
  ELSE LET refDetection == detectFaces(service, referenceImage)
           candDetection == detectFaces(service, candidateImage)
           refFaces == refDetection.value
           candFaces == candDetection.value
       IN \* the catch block of matchFaces
          IF refDetection.tag = "throw"
          THEN Return(FaceMatchResult(FALSE, 0, 0, Str(refDetection.message)))
          ELSE IF candDetection.tag = "throw"
          THEN Return(FaceMatchResult(FALSE, 0, 0, Str(candDetection.message)))
          ELSE IF Len(refFaces.faces) = 0
          THEN NoFaceDetected("reference")
          ELSE IF Len(candFaces.faces) = 0
          THEN NoFaceDetected("candidate")
          ELSE LET similarity == simulateFaceSimilarity(refFaces.faces[1], candFaces.faces[1],
                                                        baseSimilarity)
                   confidence == Min((similarity * 12) \div 10, One)
                   match == confidence >= service.config.confidenceThreshold
               IN Return(FaceMatchResult(match, confidence, similarity,
                           IF match THEN Undefined
                           ELSE Str("Face match confidence below threshold")))

\* the embedding is a Float32Array of 128 random values
extractFaceEmbedding(service, image) ==
  IF ~service.modelLoaded THEN NotInitialized
  ELSE Return([tag |-> "Float32Array", length |-> 128])

isModelLoaded(service) == service.modelLoaded

FaceImage(data, width, height) ==
  [tag |-> "object", data |-> data, format |-> "jpeg", width |-> width, height |-> height]
\* the image without data of the tests
EmptyImage == FaceImage(<<>>, 0, 0)
\* no image, the empty image, two square images whose faces do not overlap,
\* and one whose face lies inside the face of the first
FaceImages ==
  {Null, EmptyImage, FaceImage(<<1, 2, 3, 4>>, 10, 10), FaceImage(<<5, 6, 7, 8>>, 20, 20),
   FaceImage(<<1, 2, 3, 4>>, 10, 6)}
\* 0.6 + Math.random() * 0.3 lies in [0.6, 0.9)
BaseSimilarities == {6000, 6500, 7000, 8995}
\* the default threshold, one that a confidence below 1 meets exactly, and 1
FaceThresholds == {8000, 9600, One}

FaceCall(op, out) ==
  [op |-> op, before |-> faceService.service, initialized |-> faceService.initialized,
   outcome |-> out]

\* createFaceMatchService(config): the service observed from now on
CreateFaceMatchService ==
  /\ \E threshold \in FaceThresholds :
       faceService' =
         [service |-> NewFaceService([DEFAULT_FACE_MATCH_CONFIG EXCEPT
                                        !.confidenceThreshold = threshold]),
          initializing |-> 0, initialized |-> FALSE, call |-> NoCall]
  /\ UNCHANGED <<config, now, packet, rnd, path, result, trustBundle, loaded,
                 revocationCache, trustCall, wire, attempt, ble, qr, sync>>

\* initialize up to its await: console.log returns, or throws as in the test
\* of the initialization error, and then the call fails at once
InitializeBegins ==
  /\ faceService.initializing < MaxInitializing
  /\ \E logThrows \in BOOLEAN :
       faceService' =
         IF logThrows
         THEN [faceService EXCEPT !.call =
                 FaceCall("initialize",
                          Throw("Failed to initialize face matching: Model loading failed"))]
         ELSE [faceService EXCEPT !.initializing = @ + 1]
  /\ UNCHANGED <<config, now, packet, rnd, path, result, trustBundle, loaded,
                 revocationCache, trustCall, wire, attempt, ble, qr, sync>>

\* loadModel's timer has fired: modelLoaded is set, then console.log is
\* called once more
InitializeResumes ==
  /\ faceService.initializing > 0
  /\ \E logThrows \in BOOLEAN :
       faceService' =
         [faceService EXCEPT
            !.service.modelLoaded = TRUE,
            !.initializing = @ - 1,
            !.initialized = @ \/ ~logThrows,
            !.call = FaceCall("initialize",
                       IF logThrows
                       THEN Throw("Failed to initialize face matching: Model loading failed")
                       ELSE Return(Undefined))]
  /\ UNCHANGED <<config, now, packet, rnd, path, result, trustBundle, loaded,
                 revocationCache, trustCall, wire, attempt, ble, qr, sync>>

Call_detectFaces ==
  /\ \E image \in FaceImages :
       faceService' = [faceService EXCEPT !.call =
         FaceCall("detectFaces", detectFaces(faceService.service, image))
         @@ [image |-> image]]
  /\ UNCHANGED <<config, now, packet, rnd, path, result, trustBundle, loaded,
                 revocationCache, trustCall, wire, attempt, ble, qr, sync>>

Call_matchFaces ==
  /\ \E referenceImage \in FaceImages : \E candidateImage \in FaceImages :
     \E baseSimilarity \in BaseSimilarities :
       faceService' = [faceService EXCEPT !.call =
         FaceCall("matchFaces", matchFaces(faceService.service, referenceImage,
                                           candidateImage, baseSimilarity))
         @@ [referenceImage |-> referenceImage, candidateImage |-> candidateImage]]
  /\ UNCHANGED <<config, now, packet, rnd, path, result, trustBundle, loaded,
                 revocationCache, trustCall, wire, attempt, ble, qr, sync>>

Call_extractFaceEmbedding ==
  /\ \E image \in FaceImages :
       faceService' = [faceService EXCEPT !.call =
         FaceCall("extractFaceEmbedding", extractFaceEmbedding(faceService.service, image))]
  /\ UNCHANGED <<config, now, packet, rnd, path, result, trustBundle, loaded,
                 revocationCache, trustCall, wire, attempt, ble, qr, sync>>

Call_isModelLoaded ==
  /\ faceService' = [faceService EXCEPT !.call =
       FaceCall("isModelLoaded", Return(isModelLoaded(faceService.service)))]
  /\ UNCHANGED <<config, now, packet, rnd, path, result, trustBundle, loaded,
                 revocationCache, trustCall, wire, attempt, ble, qr, sync>>

FaceNext ==
  \/ CreateFaceMatchService
  \/ InitializeBegins
  \/ InitializeResumes
  \/ Call_detectFaces
  \/ Call_matchFaces
  \/ Call_extractFaceEmbedding
  \/ Call_isModelLoaded

SpecFace == Init /\ [][FaceNext]_vars

FaceObserved(op) == faceService.call # NoCall /\ faceService.call.op = op
FaceQueried ==
  \/ FaceObserved("detectFaces")
  \/ FaceObserved("matchFaces")
  \/ FaceObserved("extractFaceEmbedding")

-----------------------------------------------------------------------------
(* Properties of the face match service (SpecFace) *)

\* C29: detectFaces, matchFaces and extractFaceEmbedding fail with 'Face
\* matching service not initialized' whenever no initialize call has completed
\* successfully, and only then; an initialize that fails leaves a service that
\* was not initialized uninitialized.
C29_QueriesNeedInitialize ==
  /\ FaceQueried =>
       (faceService.call.outcome = NotInitialized <=> ~faceService.call.initialized)
  /\ (FaceObserved("initialize") /\ faceService.call.outcome.tag = "throw"
        /\ ~faceService.initialized) =>
       ~isModelLoaded(faceService.service)

\* what the code keeps of C29: the queries fail exactly while modelLoaded is
\* false, and an initialize call that succeeds leaves modelLoaded true
C29_QueriesNeedModelLoaded ==
  /\ FaceQueried =>
       (faceService.call.outcome = NotInitialized <=> ~faceService.call.before.modelLoaded)
  /\ faceService.initialized => faceService.service.modelLoaded

\* both images of the observed matchFaces call yielded a face
BothFacesDetected ==
  /\ FaceObserved("matchFaces")
  /\ faceService.call.outcome.tag = "return"
  /\ detectFaces(faceService.call.before, faceService.call.referenceImage).value.faces # <<>>
  /\ detectFaces(faceService.call.before, faceService.call.candidateImage).value.faces # <<>>

\* C30: when both images yield at least one face, matchFaces returns match =
\* true exactly when the returned confidence is greater than or equal to the
\* configured confidenceThreshold, and the error field is absent exactly when
\* match is true.
C30_MatchIffConfidenceAtLeastThreshold ==
  BothFacesDetected =>
    LET r == faceService.call.outcome.value
    IN /\ r.match <=> r.confidence >= faceService.call.before.config.confidenceThreshold
       /\ r.error = Undefined <=> r.match

\* a match whose confidence, below 1, is exactly the threshold
C30_Witness ==
  /\ BothFacesDetected
  /\ faceService.call.outcome.value.match
  /\ faceService.call.outcome.value.confidence
       = faceService.call.before.config.confidenceThreshold
  /\ faceService.call.outcome.value.confidence < One
  /\ faceService.call.outcome.value.error = Undefined

-----------------------------------------------------------------------------
(* A verification attempt beside loads and hot-swaps (SpecAttempt) *)

\* the mutations of the store that may complete while one attempt runs
MaxMutations == 2

\* the bundle and the cache as they are at this instant
StoreNow == [trustBundle |-> trustBundle, revocationCache |-> revocationCache]

\* the default bundle, and a bundle that drops the government issuer and
\* revokes its credential
AttemptBundles ==
  {DEFAULT_TRUST_BUNDLE,
   TrustBundle(Arr(<<DefaultHealthIssuer>>),
               Arr(<<RevocationList(IssuerGov, <<CredentialId>>)>>))}

AttemptFetches ==
  {[tag |-> "rejected", message |-> "Network error"]}
  \cup {Fetched(b) : b \in AttemptBundles}

\* the lists hot-swapped for the government issuer
AttemptLists == {RevocationList(IssuerGov, r) : r \in {<<>>, <<CredentialId>>}}

\* the store states the running attempt may have seen: the one it started
\* with and the one after each mutation completed since
Witnessed(store) ==
  IF attempt = NoCall THEN attempt
  ELSE IF attempt.pc = "done" THEN attempt
  ELSE [attempt EXCEPT !.versions = @ \cup {store}, !.mutations = @ + 1]

MutationAllowed == IF attempt = NoCall THEN TRUE ELSE attempt.mutations < MaxMutations

\* the continuation of loadTrustBundle after its awaits: it runs between two
\* awaited queries of the attempt, never inside one
Concurrent_loadTrustBundle ==
  /\ MutationAllowed
  /\ \E fetched \in AttemptFetches :
       LET out == loadTrustBundle([trustBundle |-> trustBundle,
                                   revocationCache |-> revocationCache,
                                   outcome |-> Undefined], fetched)
       IN /\ trustBundle' = out.trustBundle
          /\ revocationCache' = out.revocationCache
          /\ loaded' = (loaded \/ out.outcome.tag = "return")
          /\ attempt' = Witnessed([trustBundle |-> out.trustBundle,
                                   revocationCache |-> out.revocationCache])
  /\ UNCHANGED <<config, now, packet, rnd, path, result, trustCall, wire, ble, faceService, qr, sync>>

Concurrent_updateRevocationList ==
  /\ MutationAllowed
  /\ \E issuerId \in {Str(IssuerGov)} : \E list \in AttemptLists :
       LET cache == updateRevocationList(revocationCache, issuerId, list)
       IN /\ revocationCache' = cache
          /\ attempt' = Witnessed([trustBundle |-> trustBundle, revocationCache |-> cache])
  /\ UNCHANGED <<config, now, packet, rnd, path, result, trustBundle, loaded, trustCall,
                 wire, ble, faceService, qr, sync>>

\* the attempt's first query, on a loaded store
Attempt_verifyIssuerTrust ==
  /\ attempt = NoCall
  /\ Truthy(trustBundle)
  /\ \E issuerId \in {Str(IssuerGov), Str(IssuerHealth)} :
       attempt' = [pc |-> "getIssuerPublicKey",
                   issuerId |-> issuerId, credentialId |-> CredentialId,
                   issuerTrusted |-> TMS_verifyIssuerTrust(trustBundle, issuerId, now),
                   publicKey |-> NoCall, notRevoked |-> NoCall,
                   versions |-> {StoreNow}, mutations |-> 0]
  /\ UNCHANGED <<config, now, packet, rnd, path, result, trustBundle, loaded,
                 revocationCache, trustCall, wire, ble, faceService, qr, sync>>

Attempt_getIssuerPublicKey ==
  /\ attempt # NoCall
  /\ attempt.pc = "getIssuerPublicKey"
  /\ attempt' = [attempt EXCEPT
                   !.pc = "verifyCredentialRevocation",
                   !.publicKey = getIssuerPublicKey(trustBundle, attempt.issuerId,
                                                    Undefined, now)]
  /\ UNCHANGED <<config, now, packet, rnd, path, result, trustBundle, loaded,
                 revocationCache, trustCall, wire, ble, faceService, qr, sync>>

Attempt_verifyCredentialRevocation ==
  /\ attempt # NoCall
  /\ attempt.pc = "verifyCredentialRevocation"
  /\ attempt' = [attempt EXCEPT
                   !.pc = "done",
                   !.notRevoked = Return(verifyCredentialRevocation(
                                    revocationCache, attempt.issuerId, attempt.credentialId))]
  /\ UNCHANGED <<config, now, packet, rnd, path, result, trustBundle, loaded,
                 revocationCache, trustCall, wire, ble, faceService, qr, sync>>

\* the caller is done with the attempt
AttemptEnds ==
  /\ attempt # NoCall
  /\ attempt.pc = "done"
  /\ attempt' = NoCall
  /\ UNCHANGED <<config, now, packet, rnd, path, result, trustBundle, loaded,
                 revocationCache, trustCall, wire, ble, faceService, qr, sync>>

AttemptNext ==
  \/ Concurrent_loadTrustBundle
  \/ Concurrent_updateRevocationList
  \/ Attempt_verifyIssuerTrust
  \/ Attempt_getIssuerPublicKey
  \/ Attempt_verifyCredentialRevocation
  \/ AttemptEnds

SpecAttempt == Init /\ [][AttemptNext]_vars

AttemptDone == attempt # NoCall /\ attempt.pc = "done"

\* what the three queries answer on one store
AnswersOn(store) ==
  [issuerTrusted |-> TMS_verifyIssuerTrust(store.trustBundle, attempt.issuerId, now),
   publicKey |-> getIssuerPublicKey(store.trustBundle, attempt.issuerId, Undefined, now),
   notRevoked |-> Return(verifyCredentialRevocation(store.revocationCache, attempt.issuerId,
                                                    attempt.credentialId))]

\* C22: a verification attempt that runs beside loadTrustBundle or
\* updateRevocationList never observes a partially updated store: the answers
\* of its issuer-trust, public-key and revocation queries are those of one
\* store, the one from before a mutation or the one from after it.
C22_AttemptSeesOneStore ==
  AttemptDone =>
    \E store \in attempt.versions :
      /\ attempt.issuerTrusted = AnswersOn(store).issuerTrusted
      /\ attempt.publicKey = AnswersOn(store).publicKey
      /\ attempt.notRevoked = AnswersOn(store).notRevoked

\* what the code keeps of C22: each query by itself answers from a store that
\* a completed mutation left, never from one in the middle of a mutation
C22_EachQuerySeesOneStore ==
  AttemptDone =>
    /\ \E store \in attempt.versions : attempt.issuerTrusted = AnswersOn(store).issuerTrusted
    /\ \E store \in attempt.versions : attempt.publicKey = AnswersOn(store).publicKey
    /\ \E store \in attempt.versions : attempt.notRevoked = AnswersOn(store).notRevoked

\* the detection of one image of the observed matchFaces call
DetectionOf(image) == detectFaces(faceService.call.before, image)

\* C31: on an initialized service, when face detection yields zero faces for
\* the reference image matchFaces returns match = false with the error 'No
\* face detected in reference image'; when the reference has a face but the
\* candidate yields none, match = false with 'No face detected in candidate
\* image'; in neither case does a fault escape.
C31_NoFaceIsReported ==
  (FaceObserved("matchFaces") /\ faceService.call.before.modelLoaded) =>
    LET ref == DetectionOf(faceService.call.referenceImage)
        cand == DetectionOf(faceService.call.candidateImage)
        out == faceService.call.outcome
    IN /\ (ref.tag = "return" /\ ref.value.faces = <<>>) =>
            /\ out.tag = "return"
            /\ ~out.value.match
            /\ out.value.error = Str("No face detected in reference image")
       /\ (/\ ref.tag = "return" /\ ref.value.faces # <<>>
           /\ cand.tag = "return" /\ cand.value.faces = <<>>) =>
            /\ out.tag = "return"
            /\ ~out.value.match
            /\ out.value.error = Str("No face detected in candidate image")

\* the reference had a face, the candidate had none
C31_Witness ==
  /\ FaceObserved("matchFaces")
  /\ faceService.call.before.modelLoaded
  /\ DetectionOf(faceService.call.referenceImage).value.faces # <<>>
  /\ DetectionOf(faceService.call.candidateImage).value.faces = <<>>
  /\ faceService.call.outcome.value.error = Str("No face detected in candidate image")

\* C32: on an initialized service detectFaces never faults, and for an image
\* with empty data and zero width and height it returns success = false with
\* an empty faces list.
C32_EmptyImageFailsDetection ==
  (FaceObserved("detectFaces") /\ faceService.call.before.modelLoaded) =>
    /\ faceService.call.outcome.tag = "return"
    /\ faceService.call.image = EmptyImage =>
         /\ ~faceService.call.outcome.value.success
         /\ faceService.call.outcome.value.faces = <<>>

\* what the code keeps of C32: on an initialized service detectFaces never
\* faults, and success = false comes with an empty faces list and an error
C32_DetectionNeverFaults ==
  (FaceObserved("detectFaces") /\ faceService.call.before.modelLoaded) =>
    /\ faceService.call.outcome.tag = "return"
    /\ ~faceService.call.outcome.value.success =>
         /\ faceService.call.outcome.value.faces = <<>>
         /\ faceService.call.outcome.value.error # Undefined

-----------------------------------------------------------------------------
(* verifyVCOffline: the entry point for a scanned QR text (SpecQR) *)

\* the pieces a QR text is made of
MaxPayloadLen == 4

\* payload.length > 10000 and substring(0, 10000)
PayloadLimit == 10000

\* A QR text is a sequence of pieces: single characters, one JSON member that
\* declares a proof type the pipeline does not support, a character outside
\* Latin-1, and a run of 10001 characters.
BbsMember == "\"proof\":{\"type\":\"BbsBlsSignature2020\"}"
Pieces == {"{", "}", "<", " ", "x", BbsMember, "EURO", "PAD"}

\* the characters of one piece
PieceLength(c) ==
  CASE c = "PAD" -> PayloadLimit + 1
    [] c = BbsMember -> 38
    [] OTHER -> 1

RECURSIVE StringLength(_)
StringLength(s) == IF s = <<>> THEN 0 ELSE PieceLength(Head(s)) + StringLength(Tail(s))

\* s.replace(/[<>]/g, '')
RemoveAngleBrackets(s) == SelectSeq(s, LAMBDA c : c \notin {"<", ">"})

\* s.substring(0, limit), in whole pieces
RECURSIVE Substring(_, _)
Substring(s, limit) ==
  IF s = <<>> \/ PieceLength(Head(s)) > limit THEN <<>>
  ELSE <<Head(s)>> \o Substring(Tail(s), limit - PieceLength(Head(s)))

RECURSIVE TrimStart(_)
TrimStart(s) == IF s # <<>> /\ Head(s) = " " THEN TrimStart(Tail(s)) ELSE s
RECURSIVE TrimEnd(_)
TrimEnd(s) ==
  IF s # <<>> /\ s[Len(s)] = " " THEN TrimEnd(SubSeq(s, 1, Len(s) - 1)) ELSE s
Trim(s) == TrimEnd(TrimStart(s))

\* trimmed.startsWith('{') && trimmed.endsWith('}')
LooksJson(s) == s # <<>> /\ Head(s) = "{" /\ s[Len(s)] = "}"

\* JSON.parse of a text made of these pieces: white space between the pieces
\* counts for nothing; {} and an object with the one member are texts of the
\* grammar, everything else is a SyntaxError
ParseText(s) ==
  LET tokens == SelectSeq(s, LAMBDA c : c # " ")
  IN IF tokens = <<"{", "}">>
     THEN Return([tag |-> "object", proof |-> Undefined])
     ELSE IF tokens = <<"{", BbsMember, "}">>
     THEN Return([tag |-> "object",
                  proof |-> [tag |-> "object", type |-> Str("BbsBlsSignature2020")]])
     ELSE Throw("SyntaxError: Unexpected token in JSON")

sanitizeQRPayload(payload) ==
  Trim(Substring(RemoveAngleBrackets(payload), PayloadLimit))

Validation(valid, error) == [valid |-> valid, error |-> error]

\* a validation that takes every text that is not too long
validateQRPayload_lenient(payload) ==
  IF payload = <<>> THEN Validation(FALSE, Str("Invalid payload type"))
  ELSE IF StringLength(payload) > PayloadLimit
  THEN Validation(FALSE, Str("Payload too large"))
  ELSE Validation(TRUE, Undefined)

\* the empty string is falsy: it is turned away by the first test
validateQRPayload(payload) ==
  IF payload = <<>> THEN Validation(FALSE, Str("Invalid payload type"))
  ELSE IF StringLength(payload) > PayloadLimit
  THEN Validation(FALSE, Str("Payload too large"))
  ELSE IF LooksJson(Trim(payload))
  THEN IF ParseText(Trim(payload)).tag = "return"
       THEN Validation(TRUE, Undefined)
       ELSE Validation(FALSE, Str("Invalid JSON format"))
  ELSE Validation(TRUE, Undefined)

\* the digest is kept symbolic: one string for each input. Without
\* crypto.subtle the fallback is btoa, which throws on a character outside
\* Latin-1.
generateSecureHash(input, subtle) ==
  IF subtle THEN Return([tag |-> "string", digest |-> input])
  ELSE IF \E i \in DOMAIN input : input[i] = "EURO"
  THEN Throw("InvalidCharacterError")
  ELSE Return([tag |-> "string", digest |-> input])

\* what the SDK's verify answers, when the SDK is there and does not throw
SdkResult(ok, valid, verified, reason) ==
  [tag |-> "object", ok |-> ok, valid |-> valid, verified |-> verified, reason |-> reason]

\* a boolean among the values an SDK result holds
Bool(b) == [tag |-> "boolean", b |-> b]

\* x ?? y
Coalesce(x, y) == IF IsNullish(x) THEN y ELSE x

\* sdk is the outcome of import() and of the SDK's verify: a throw on either
\* falls back to the check of the braces
injiVerify(payload, sdk) ==
  IF sdk.tag = "return" THEN sdk.value
  ELSE LET looksJson == LooksJson(Trim(payload))
       IN SdkResult(Bool(looksJson), Undefined, Undefined,
                    IF looksJson THEN Str("Verified (fallback)")
                    ELSE Str("Invalid format (fallback)"))

supportedProofsOfVerify ==
  {Str("RsaSignature2018"), Str("Ed25519Signature2018"), Str("Ed25519Signature2020")}

VerifyOutcome(status, message, hash, details) ==
  [status |-> status, message |-> message, hash |-> hash, details |-> details]

verifyVCOffline(qrPayload, sdk, subtle) ==
  LET validation == validateQRPayload(qrPayload)
  IN IF ~validation.valid
     THEN LET hash == generateSecureHash(qrPayload, subtle)
          IN IF hash.tag = "throw" THEN hash
             ELSE Return(VerifyOutcome("failure",
                           IF Truthy(validation.error) THEN validation.error
                           ELSE Str("Invalid payload"),
                           hash.value, Undefined))
     ELSE
       LET sanitizedPayload == sanitizeQRPayload(qrPayload)
           hash == generateSecureHash(sanitizedPayload, subtle)
           verified == injiVerify(sanitizedPayload, sdk)
           flag == IF IsNullish(verified) THEN Undefined
                   ELSE Coalesce(Coalesce(verified.ok, verified.valid), verified.verified)
           \* !!flag, of a boolean or undefined
           ok == flag.tag = "boolean" /\ flag.b
           reason == IF ~IsNullish(verified) /\ Truthy(verified.reason) THEN verified.reason
                     ELSE IF ok THEN Str("Verified") ELSE Str("Not verified")
           vc == ParseText(sanitizedPayload)
       IN IF hash.tag = "throw" THEN hash
          ELSE IF ok /\ vc.tag = "throw" THEN vc
          ELSE IF /\ ok
                  /\ Truthy(vc.value.proof)
                  /\ Truthy(vc.value.proof.type)
                  /\ vc.value.proof.type \notin supportedProofsOfVerify
          THEN Return(VerifyOutcome("failure",
                        Str("Unsupported proof type: " \o vc.value.proof.type.s),
                        hash.value, verified))
          ELSE Return(VerifyOutcome(IF ok THEN "success" ELSE "failure",
                                    reason, hash.value, verified))

\* the texts a scan can deliver
QRPayloads == UNION {[1..n -> Pieces] : n \in 0..MaxPayloadLen}

\* the SDK is missing or throws, or answers with one of these
SdkOutcomes ==
  {Throw("Cannot find module '@mosip/react-inji-verify-sdk'"),
   Return(Null),
   Return(SdkResult(Bool(TRUE), Undefined, Undefined, Undefined)),
   Return(SdkResult(Undefined, Bool(FALSE), Undefined, Str("Signature invalid"))),
   Return(SdkResult(Undefined, Undefined, Bool(TRUE), Str("Verified")))}

Call_verifyVCOffline ==
  /\ qr = NoCall
  /\ \E qrPayload \in QRPayloads : \E sdk \in SdkOutcomes : \E subtle \in BOOLEAN :
       qr' = [qrPayload |-> qrPayload, sdk |-> sdk, subtle |-> subtle,
              outcome |-> verifyVCOffline(qrPayload, sdk, subtle)]
  /\ UNCHANGED <<config, now, packet, rnd, path, result, trustBundle, loaded,
                 revocationCache, trustCall, wire, attempt, ble, faceService, sync>>

\* the caller is done with the outcome
QRForget ==
  /\ qr # NoCall
  /\ qr' = NoCall
  /\ UNCHANGED <<config, now, packet, rnd, path, result, trustBundle, loaded,
                 revocationCache, trustCall, wire, attempt, ble, faceService, sync>>

QRNext ==
  \/ Call_verifyVCOffline
  \/ QRForget

SpecQR == Init /\ [][QRNext]_vars

\* C33: for every input string and whatever the underlying verifier reports,
\* verifyVCOffline completes with an outcome whose status is 'success' or
\* 'failure' and whose hash is a string; it never raises a fault, and a
\* payload rejected by validateQRPayload always gets status 'failure'.
C33_AlwaysAnOutcome ==
  qr # NoCall =>
    /\ qr.outcome.tag = "return"
    /\ qr.outcome.value.status \in {"success", "failure"}
    /\ qr.outcome.value.hash.tag = "string"
    /\ ~validateQRPayload(qr.qrPayload).valid => qr.outcome.value.status = "failure"

\* what the code keeps of C33: a call that does not fault has status 'success'
\* or 'failure' and a string hash, and a rejected payload never succeeds
C33_OutcomeWhenNoFault ==
  (qr # NoCall /\ qr.outcome.tag = "return") =>
    /\ qr.outcome.value.status \in {"success", "failure"}
    /\ qr.outcome.value.hash.tag = "string"
    /\ ~validateQRPayload(qr.qrPayload).valid => qr.outcome.value.status = "failure"

\* the fault needs no SDK: with crypto.subtle present and the fallback
\* verifier, a text whose braces appear only after sanitizing is parsed
C33_FaultWithFallback ==
  /\ qr # NoCall
  /\ qr.subtle
  /\ qr.sdk.tag = "throw"
  /\ qr.outcome.tag = "throw"

-----------------------------------------------------------------------------
(* Log upload: db.ts, sync.ts, background-sync.ts, App.onSync *)

MaxLogs == 2
MaxAccepted == 2

\* the batch size of syncLogs and the default of getUnsyncedLogs
SyncLogsLimit == 200
DefaultLimit == 100

\* the store keeps a log under its auto-increment key id, the index of the
\* sequence; a log is its synced flag
addLog(logs) == Append(logs, 0)

RECURSIVE UnsyncedFrom(_, _, _)
UnsyncedFrom(logs, id, limit) ==
  IF id > Len(logs) \/ limit = 0 THEN <<>>
  ELSE IF logs[id] = 0
       THEN <<id>> \o UnsyncedFrom(logs, id + 1, limit - 1)
       ELSE UnsyncedFrom(logs, id + 1, limit)

\* the cursor over by-synced = 0, in key order, up to limit logs
getUnsyncedLogs(logs, limit) == UnsyncedFrom(logs, 1, limit)

Ids(batch) == {batch[i] : i \in DOMAIN batch}

\* one readwrite transaction: every row found is put back with synced 1
markLogsSynced(logs, ids) ==
  [id \in DOMAIN logs |-> IF id \in Ids(ids) THEN 1 ELSE logs[id]]

\* logs.map(l => l.id!).filter(Boolean)
uploadedIds(batch) == SelectSeq(batch, LAMBDA id : id # 0)

\* syncLogs after getUnsyncedLogs resolved: an empty queue returns, another
\* is posted
syncLogs_queued(run, logs) ==
  LET batch == getUnsyncedLogs(logs, SyncLogsLimit) IN
  IF Len(batch) = 0
  THEN [run EXCEPT !.pc = "done", !.outcome = Return([uploaded |-> Num(0)])]
  ELSE [run EXCEPT !.pc = "fetch", !.batch = batch]

\* syncLogs without the check of res.ok
syncLogs_fetched_ignoresStatus(run, res) ==
  IF res.tag = "throw"
  THEN [run EXCEPT !.pc = "done", !.res = res, !.outcome = res]
  ELSE [run EXCEPT !.pc = "json", !.res = res]

\* syncLogs after fetch settled: a rejected request and a non-OK answer throw
syncLogs_fetched(run, res) ==
  IF res.tag = "throw"
  THEN [run EXCEPT !.pc = "done", !.res = res, !.outcome = res]
  ELSE IF ~res.value.ok
  THEN [run EXCEPT !.pc = "done", !.res = res,
                   !.outcome = Throw("Sync failed: 500")]
  ELSE [run EXCEPT !.pc = "json", !.res = res]

\* syncLogs after res.json() settled
syncLogs_parsed(run, data) ==
  IF data.tag = "throw"
  THEN [run EXCEPT !.pc = "done", !.outcome = data]
  ELSE [run EXCEPT !.pc = "markLogsSynced", !.data = data.value]

\* syncLogs after markLogsSynced resolved
syncLogs_marked(run) ==
  [run EXCEPT !.pc = "done",
              !.outcome = Return([uploaded |->
                 Coalesce(run.data.stored, Num(Len(uploadedIds(run.batch))))])]

\* the server stores every log of a batch it answers OK to
ServerAccepts(accepted, batch) ==
  [id \in DOMAIN accepted |->
     IF id \in Ids(batch) THEN Min(accepted[id] + 1, MaxAccepted)
     ELSE accepted[id]]

FetchOutcomes ==
  {Return([ok |-> TRUE, status |-> 200]), Return([ok |-> FALSE, status |-> 500]),
   Throw("TypeError: Failed to fetch")}
JsonOutcomes ==
  {Return([stored |-> Num(1)]), Return([stored |-> Undefined]),
   Throw("SyntaxError: Unexpected end of JSON input")}
AppSettings == [autoSync : BOOLEAN, wifiOnlySync : BOOLEAN]

\* (navigator as any).connection?.type === 'wifi' || true
isWifiConnection == TRUE

\* runSync returns when its syncLogs call has ended, thrown or not
RunSyncReturns(s) ==
  IF s.background = "syncLogs" /\ s.run["runSync"].pc = "done"
  THEN [s EXCEPT !.background = "idle"]
  ELSE s

\* runSync up to its first await
runSync(s) ==
  IF ~s.isOnline THEN s ELSE [s EXCEPT !.background = "getSettings"]

\* the first run and the interval
startBackgroundSync(s) ==
  IF s.syncTimer THEN s ELSE [runSync(s) EXCEPT !.syncTimer = TRUE]

stopBackgroundSync(s) ==
  IF s.syncTimer THEN [s EXCEPT !.syncTimer = FALSE] ELSE s

updateConnectivityStatus(s, online) ==
  LET t == [s EXCEPT !.isOnline = online] IN
  IF online THEN startBackgroundSync(t) ELSE stopBackgroundSync(t)

SyncFrame ==
  UNCHANGED <<config, now, packet, rnd, path, result, trustBundle, loaded,
              revocationCache, trustCall, wire, attempt, ble, faceService, qr>>

Call_addLog ==
  /\ Len(sync.logs) < MaxLogs
  /\ sync' = [sync EXCEPT !.logs = addLog(@), !.accepted = Append(@, 0)]
  /\ SyncFrame

\* the Sync Now button, disabled while a manual sync is busy
Call_onSync ==
  /\ sync.run["onSync"].pc \in {"idle", "done"}
  /\ sync' = [sync EXCEPT !.run["onSync"] =
                [IdleRun EXCEPT !.pc = "getUnsyncedLogs",
                                !.online = sync.isOnline]]
  /\ SyncFrame

QueueRead ==
  /\ \E r \in Runners :
       /\ sync.run[r].pc = "getUnsyncedLogs"
       /\ sync' = RunSyncReturns(
                    [sync EXCEPT !.run[r] = syncLogs_queued(@, sync.logs)])
  /\ SyncFrame

FetchSettles ==
  /\ \E r \in Runners : \E res \in FetchOutcomes :
       /\ sync.run[r].pc = "fetch"
       /\ sync' = RunSyncReturns(
                    [sync EXCEPT !.run[r] = syncLogs_fetched(@, res),
                                 !.accepted =
                                   IF res.tag = "return" /\ res.value.ok
                                   THEN ServerAccepts(@, sync.run[r].batch)
                                   ELSE @])
  /\ SyncFrame

JsonSettles ==
  /\ \E r \in Runners : \E data \in JsonOutcomes :
       /\ sync.run[r].pc = "json"
       /\ sync' = RunSyncReturns(
                    [sync EXCEPT !.run[r] = syncLogs_parsed(@, data)])
  /\ SyncFrame

MarkSettles ==
  /\ \E r \in Runners :
       /\ sync.run[r].pc = "markLogsSynced"
       /\ sync' = RunSyncReturns(
                    [sync EXCEPT !.run[r] = syncLogs_marked(@),
                                 !.logs = markLogsSynced(@,
                                            uploadedIds(sync.run[r].batch))])
  /\ SyncFrame

\* the online and offline events of the window; one runSync is in flight at
\* a time
Call_updateConnectivityStatus ==
  /\ \E online \in BOOLEAN :
       /\ online /\ ~sync.syncTimer => sync.background = "idle"
       /\ sync' = updateConnectivityStatus(sync, online)
  /\ SyncFrame

\* the cleanup of the App effect
Call_stopBackgroundSync ==
  /\ sync.syncTimer
  /\ sync' = stopBackgroundSync(sync)
  /\ SyncFrame

IntervalFires ==
  /\ sync.syncTimer
  /\ sync.background = "idle"
  /\ sync' = runSync(sync)
  /\ SyncFrame

\* runSync after getSettings resolved
SettingsRead ==
  /\ sync.background = "getSettings"
  /\ \E settings \in AppSettings :
       sync' = IF ~settings.autoSync
                  \/ (settings.wifiOnlySync /\ ~isWifiConnection)
               THEN [sync EXCEPT !.background = "idle"]
               ELSE [sync EXCEPT !.background = "getUnsyncedLogs"]
  /\ SyncFrame

\* runSync after getUnsyncedLogs resolved: syncLogs is called for a queue
\* that is not empty
UnsyncedRead ==
  /\ sync.background = "getUnsyncedLogs"
  /\ sync' = IF Len(getUnsyncedLogs(sync.logs, DefaultLimit)) = 0
             THEN [sync EXCEPT !.background = "idle"]
             ELSE [sync EXCEPT !.background = "syncLogs",
                               !.run["runSync"] =
                                 [IdleRun EXCEPT !.pc = "getUnsyncedLogs",
                                                 !.online = sync.isOnline]]
  /\ SyncFrame

SyncNext ==
  \/ Call_addLog
  \/ Call_onSync
  \/ QueueRead
  \/ FetchSettles
  \/ JsonSettles
  \/ MarkSettles
  \/ Call_updateConnectivityStatus
  \/ Call_stopBackgroundSync
  \/ IntervalFires
  \/ SettingsRead
  \/ UnsyncedRead

SpecSync == Init /\ [][SyncNext]_vars

ResponseOk(run) == run.res.tag = "return" /\ run.res.value.ok

\* C34: a log's synced flag is raised only by a syncLogs call that holds an
\* OK answer of the server for a batch with that log in it, and that call
\* raises the flag of every log of its batch; a call whose request failed or
\* was answered non-OK ends with a throw and changes no flag.
C34_MarksExactlyAcknowledgedBatch ==
  [][ /\ \A id \in DOMAIN sync.logs :
           sync.logs[id] = 0 /\ sync'.logs[id] = 1 =>
             \E r \in Runners :
               /\ sync.run[r].pc = "markLogsSynced"
               /\ sync'.run[r].outcome.tag = "return"
               /\ ResponseOk(sync.run[r])
               /\ id \in Ids(sync.run[r].batch)
               /\ \A j \in Ids(sync.run[r].batch) : sync'.logs[j] = 1
      /\ \A r \in Runners :
           sync.run[r].pc = "fetch" /\ sync'.run[r].pc # "fetch"
             /\ ~ResponseOk(sync'.run[r]) =>
               /\ sync'.run[r].outcome.tag = "throw"
               /\ sync'.logs = sync.logs
    ]_vars

\* a manual sync has marked its batch and returned, and a background sync of
\* a later log has ended with a throw that left that log unsynced
C34_Witness ==
  /\ sync.run["onSync"].outcome.tag = "return"
  /\ Len(sync.run["onSync"].batch) > 0
  /\ \A id \in Ids(sync.run["onSync"].batch) : sync.logs[id] = 1
  /\ sync.run["runSync"].outcome.tag = "throw"
  /\ ~ResponseOk(sync.run["runSync"])
  /\ \E id \in Ids(sync.run["runSync"].batch) : sync.logs[id] = 0

\* C39: background sync starts no upload while the connectivity status is
\* offline, and while the status is offline no periodic timer is armed.
C39_NoUploadWhileOffline ==
  /\ sync.run["runSync"].pc # "idle" => sync.run["runSync"].online
  /\ ~sync.isOnline => ~sync.syncTimer

\* what the code keeps: updateConnectivityStatus(false) clears the interval,
\* and runSync does not begin while the status is offline
C39_OfflineDisarmsTimer ==
  /\ [](~sync.isOnline => ~sync.syncTimer)
  /\ [][sync.background = "idle" /\ sync'.background # "idle" => sync'.isOnline]_vars

\* C40: the server accepts no log more than once.
C40_AcceptedAtMostOnce ==
  \A id \in DOMAIN sync.accepted : sync.accepted[id] <= 1

\* what the code keeps: a call of syncLogs that begins after a log was marked
\* synced does not upload that log
C40_SyncedLogsLeaveTheQueue ==
  [][\A r \in Runners :
       sync.run[r].pc = "getUnsyncedLogs" /\ sync'.run[r].pc = "fetch" =>
         \A id \in Ids(sync'.run[r].batch) : sync.logs[id] = 0]_vars

-----------------------------------------------------------------------------
(* Schema allow-list (SpecStore) *)

\* a credential with a type list was asked about with a bundle loaded
TypeListValidated ==
  /\ Observed("validateCredentialSchema")
  /\ Truthy(trustBundle)
  /\ ~IsNullish(trustBundle.schemas)
  /\ ~IsNullish(trustCall.credential)
  /\ trustCall.credential.type.tag = "array"

\* some type of the credential's list is the type of a schema of the bundle
SomeTypeAllowed ==
  \E i \in DOMAIN trustCall.credential.type.items :
    \E j \in DOMAIN trustBundle.schemas.items :
      trustBundle.schemas.items[j].type = trustCall.credential.type.items[i]

\* C35: validateCredentialSchema accepts a credential whose type list has at
\* least one type of the loaded bundle's schema allow-list and rejects one
\* whose type list has none.
C35_AcceptsIffSomeTypeAllowed ==
  TypeListValidated => trustCall.outcome = Return(SomeTypeAllowed)

\* what the code keeps: a credential none of whose types is allowed is rejected
C35_RejectsUnlisted ==
  TypeListValidated /\ ~SomeTypeAllowed => trustCall.outcome = Return(FALSE)

-----------------------------------------------------------------------------
(* Leftover timers (SpecBLE) *)

\* the flag a timer lowers
FlagOf(service, kind) ==
  IF kind = "advertising" THEN service.isAdvertising ELSE service.isScanning

\* a timer has fired whose session was stopped before
StaleTimerFired == BLEObserved("timerCallback") /\ ble.call.stale

\* C36: the expiry timer of a session ends only that session: a timer left
\* over from a session that was stopped never clears the isAdvertising
\* (isScanning) flag of a session started later.
C36_StaleTimerKeepsFlag ==
  StaleTimerFired =>
    FlagOf(ble.service, ble.call.timer.kind)
      = FlagOf(ble.call.before, ble.call.timer.kind)

\* a session was stopped, another was started, and the timer of the first
\* fired while the second was active
C36_StaleTimerInLaterSession ==
  StaleTimerFired /\ FlagOf(ble.call.before, ble.call.timer.kind)

\* what the code keeps: a timer leaves the flag of the other kind alone
C36_TimerKeepsOtherFlag ==
  BLEObserved("timerCallback") =>
    IF ble.call.timer.kind = "advertising"
    THEN ble.service.isScanning = ble.call.before.isScanning
    ELSE ble.service.isAdvertising = ble.call.before.isAdvertising

-----------------------------------------------------------------------------
(* The issuer of the trust check and of the signature check (SpecVerify) *)

\* C37: whenever verifyCredentialOffline returns success = true, the issuer
\* that passed the trust check (metadata.issuer) is the issuer whose public
\* key was used for the signature check (credential.issuer.id).
C37_TrustedIssuerIsKeyIssuer ==
  (Returned /\ result.success) =>
    packet.metadata.issuer = OptionalIssuerId(packet.credential)

\* what the code keeps: on success metadata.issuer is a trusted issuer and
\* the key table has an entry under credential.issuer.id
C37_EachCheckPassedForItsIssuer ==
  (Returned /\ result.success) =>
    /\ verifyIssuerTrust(packet.metadata.issuer)
    /\ Truthy(getIssuerPublicKeys(OptionalIssuerId(packet.credential)))

-----------------------------------------------------------------------------
(* Revoked and expired keys in verifySignature (SpecTrust) *)

KeyUnusable(k) ==
  k.revoked \/ (Truthy(k.expiresAt) /\ ~NumGT(k.expiresAt, Num(now)))

\* the proof of the verifySignature call names a key of the issuer that is
\* revoked or whose expiresAt has passed
NamedKeyUnusable ==
  /\ Observed("verifySignature")
  /\ BundleLoaded
  /\ ~IsNullish(trustCall.proof)
  /\ Truthy(trustCall.proof.verificationMethod)
  /\ \E issuer \in IssuersOf(trustBundle) :
       /\ issuer.id = trustCall.issuerId
       /\ \E k \in KeysOf(issuer) :
            k.id = trustCall.proof.verificationMethod /\ KeyUnusable(k)

\* C38: the trust store's verifySignature never returns true on the strength
\* of a revoked or expired key: when the proof's verificationMethod names a
\* key whose revoked flag is set or whose expiresAt has passed, the result
\* is false.
C38_UnusableKeyNeverVerifies ==
  NamedKeyUnusable => trustCall.outcome = Return(FALSE)

\* what the code keeps: a proof that names no key verifies only when the
\* issuer has a key that is neither revoked nor expired
C38_UnnamedKeyMustBeUsable ==
  (/\ Observed("verifySignature")
   /\ trustCall.outcome = Return(TRUE)
   /\ ~Truthy(trustCall.proof.verificationMethod)) =>
    \E issuer \in IssuersOf(trustBundle) :
      /\ issuer.id = trustCall.issuerId
      /\ \E k \in KeysOf(issuer) : ~KeyUnusable(k)

====
